---- MODULE Spec2Model ----
(***************************************************************************)
(* Model of the numeric core of src/src/App.tsx: the smoothing filter,     *)
(* detectSwallowingCycles as driven by handleAdvancedAnalysis,             *)
(* extractCycleParameters (contraction ratio and aspiration risk) and      *)
(* processAdvancedData.                                                    *)
(*                                                                         *)
(* Numbers.  TLC has no reals, so every real quantity of the driver        *)
(* series is an integer count of 1/Scale (1e-4); a division keeps the      *)
(* floor of the quotient.  The Gaussian weights exp(-j^2/8) are kept to    *)
(* four decimals.  Frame indices are 0-based as in the source; At(s, k)    *)
(* reads index k of a sequence.                                            *)
(***************************************************************************)
EXTENDS Integers, Sequences, FiniteSets, TLC

VARIABLES
    \* ---- handleAdvancedAnalysis / detectSwallowingCycles
    zscoreData,         \* the driver series handed to detectSwallowingCycles
    pc,                 \* position in the handler
    attempt,            \* "default" (0.3, 15) or "relaxed" (0.1, 10) call
    minPeakHeight, minCycleLength,
    smoothedData, diffData, peaks, filteredPeaks,
    peakIdx,            \* loop variable i of the cycle loop (0-based)
    swallowingCycles, lastEndFrame,
    extractCalls,       \* the calls of extractCycleParameters made by the loop
    lastLog,            \* the last console line of the cycle loop
    result,             \* value returned by the last completed call
    swallowingAnalysis, \* the handler's local of that name
    advancedData,       \* React state set by setAdvancedData
    renderOutcome,      \* what rendering the cycle table does
    \* ---- extractCycleParameters
    xData, xStart, xEnd, xResult, xpc,
    xCycles,            \* the accepted cycles of the recording
    xIndex,             \* which of them is being extracted (1-based)
    xTiming,            \* the cycle's row of the timing-parameter table
    xFps,               \* summary.fps, the frame rate the recording supplies
    \* ---- processAdvancedData
    frames, reference, processed, ppc,
    \* ---- savitzkyGolayFilter
    fData,              \* the argument data
    fResult,            \* the returned series
    fpc,
    \* ---- the job of App: onSubmit and the polling effect
    jobId,              \* 0 for null
    jobStatus,          \* "null" or a JobStatus
    summary,            \* 0 for null, else the job whose result it is
    submitting,
    pollTimer,          \* pollTimer.current: 0 for null, else the job whose
                        \* effect created the interval it holds
    intervals,          \* the jobs whose interval has not been cleared
    backend,            \* the status of each job at the backend
    inFlight,           \* requests sent and not yet answered
    requests            \* number of requests sent so far

detectVars == <<zscoreData, pc, attempt, minPeakHeight, minCycleLength,
                smoothedData, diffData, peaks, filteredPeaks, peakIdx,
                swallowingCycles, lastEndFrame, extractCalls, lastLog, result,
                swallowingAnalysis, advancedData, renderOutcome>>
extractVars == <<xData, xStart, xEnd, xResult, xpc, xCycles, xIndex, xTiming, xFps>>
processVars == <<frames, reference, processed, ppc>>
filterVars == <<fData, fResult, fpc>>
pollVars == <<jobId, jobStatus, summary, submitting, pollTimer, intervals,
              backend, inFlight, requests>>
vars == <<detectVars, extractVars, processVars, filterVars, pollVars>>

-----------------------------------------------------------------------------
(* Numeric helpers *)

Scale == 100 * 100

Abs(x) == IF x < 0 THEN -x ELSE x

Min2(a, b) == IF a < b THEN a ELSE b

MinOf(S) == CHOOSE x \in S : \A y \in S : x <= y

MaxOf(S) == CHOOSE x \in S : \A y \in S : x >= y

At(s, k) == s[k + 1]

FirstIdx(S, default) == IF S = {} THEN default ELSE MinOf(S)

-----------------------------------------------------------------------------
(* A value that may be absent is a tagged tuple: Null, Num(v), Bool(b),    *)
(* Ratio(n, d) for the quotient n / d as the division leaves it, List(s);  *)
(* Undefined and NaN are the JavaScript values of those names.             *)

Null == <<"null">>
Num(v) == <<"num", v>>
Bool(b) == <<"bool", b>>
Ratio(n, d) == <<"ratio", n, d>>
List(s) == <<"list", s>>
Undefined == <<"undefined">>
NaN == <<"NaN">>

IsNull(x) == x[1] = "null"

IsNum(x) == x[1] = "num"

Val(x) == x[2]

\* JavaScript truthiness of a number, null, undefined or NaN
Falsy(x) == IF IsNum(x) THEN Val(x) = 0 ELSE TRUE

-----------------------------------------------------------------------------
(* savitzkyGolayFilter *)

\* Math.exp(-(j*j) / (2*halfWindow*halfWindow)) for halfWindow = 2, in 1/10000
GaussWeight(j) ==
    CASE j = 0 -> 10000
      [] Abs(j) = 1 -> 8825
      [] OTHER -> 6065

RECURSIVE WeightedSum(_, _, _, _)
WeightedSum(data, i, j, halfWindow) ==
    IF j > halfWindow THEN 0
    ELSE (IF i + j >= 0 /\ i + j < Len(data)
             THEN At(data, i + j) * GaussWeight(j) ELSE 0)
         + WeightedSum(data, i, j + 1, halfWindow)

\* the weight of the whole window, whatever part of it lies in the series
WeightTotalWhole(n, i, j, halfWindow) ==
    GaussWeight(0) + 2 * GaussWeight(1) + 2 * GaussWeight(2)

RECURSIVE WeightTotal(_, _, _, _)
WeightTotal(n, i, j, halfWindow) ==
    IF j > halfWindow THEN 0
    ELSE (IF i + j >= 0 /\ i + j < n THEN GaussWeight(j) ELSE 0)
         + WeightTotal(n, i, j + 1, halfWindow)

savitzkyGolayFilter(data, windowSize) ==
    IF Len(data) < windowSize THEN data
    ELSE LET halfWindow == windowSize \div 2
         IN [k \in 1..Len(data) |->
                WeightedSum(data, k - 1, -halfWindow, halfWindow)
                  \div WeightTotal(Len(data), k - 1, -halfWindow, halfWindow)]

-----------------------------------------------------------------------------
(* detectSwallowingCycles: constants *)

SmoothWindow == 5
PeakWindow == 3
RiseThreshold == (2 * Scale) \div 100
TrendThreshold == (15 * Scale) \div 1000
StableThreshold == (15 * Scale) \div 1000
PostSearchWindow == 100
StableSearchWindow == 30
MinReasonableLength == 5
MaxReasonableLength == 200
DefaultMinPeakHeight == (3 * Scale) \div 10
DefaultMinCycleLength == 15
RelaxedMinPeakHeight == (1 * Scale) \div 10
RelaxedMinCycleLength == 10

FirstDifferences(s) == [k \in 1..(Len(s) - 1) |-> s[k + 1] - s[k]]

IsPeak(s, i, mph) ==
    /\ \A j \in (i - PeakWindow)..(i + PeakWindow) :
          j # i => ~(At(s, j) >= At(s, i))
    /\ At(s, i) > mph

RECURSIVE CollectPeaks(_, _, _)
CollectPeaks(s, i, mph) ==
    IF i >= Len(s) - PeakWindow THEN << >>
    ELSE (IF IsPeak(s, i, mph) THEN <<i>> ELSE << >>)
         \o CollectPeaks(s, i + 1, mph)

DetectPeaks(s, mph) == CollectPeaks(s, PeakWindow, mph)

RemoveAt(seq, j) == SubSeq(seq, 1, j - 1) \o SubSeq(seq, j + 1, Len(seq))

\* one iteration of the outer filtering loop: the inner loop stops at the
\* first retained peak closer than minCycleLength
FilterOne(kept, currentPeak, s, mcl) ==
    LET close == {j \in 1..Len(kept) : Abs(currentPeak - kept[j]) < mcl}
    IN IF close = {} THEN Append(kept, currentPeak)
       ELSE LET j == MinOf(close)
            IN IF At(s, currentPeak) > At(s, kept[j])
                  THEN Append(RemoveAt(kept, j), currentPeak)
                  ELSE kept

RECURSIVE FilterFrom(_, _, _, _, _)
FilterFrom(candidates, k, kept, s, mcl) ==
    IF k > Len(candidates) THEN kept
    ELSE FilterFrom(candidates, k + 1, FilterOne(kept, candidates[k], s, mcl), s, mcl)

FilterPeaks(candidates, s, mcl) == FilterFrom(candidates, 1, << >>, s, mcl)

\* index of the first strict minimum below s[from0] among the frames of range
ArgMinBelow(s, range, p) ==
    LET below == {j \in range : At(s, j) < At(s, p)}
    IN IF below = {} THEN p
       ELSE MinOf({j \in below : \A k \in below : At(s, j) <= At(s, k)})

StartFrameFirst(d, peakFrame) ==
    FirstIdx({j \in 0..(peakFrame - 1) : At(d, j) > RiseThreshold}, 0)

StartFrameLater(s, d, peakFrame, lastEnd) ==
    LET localMinIndex == ArgMinBelow(s, (lastEnd + 1)..(peakFrame - 1), peakFrame)
    IN FirstIdx({j \in localMinIndex..(peakFrame - 1) : At(d, j) > TrendThreshold},
                localMinIndex)

StartFrameOf(i, s, d, peakFrame, lastEnd) ==
    IF i = 0 THEN StartFrameFirst(d, peakFrame)
    ELSE StartFrameLater(s, d, peakFrame, lastEnd)

PostLocalMinIndex(s, d, peakFrame) ==
    LET n == Len(s)
        hi == Min2(n, peakFrame + PostSearchWindow) - 1
        rises == {j \in (peakFrame + 1)..hi : j < n - 1 /\ At(d, j) > RiseThreshold}
        stop == IF rises = {} THEN hi ELSE MinOf(rises)
    IN ArgMinBelow(s, (peakFrame + 1)..stop, peakFrame)

\* diffData[n-1] is undefined: Math.abs(undefined) < 0.015 is false
EndFrameOf(s, d, peakFrame) ==
    LET n == Len(s)
        postLocalMinIndex == PostLocalMinIndex(s, d, peakFrame)
        hi == Min2(n, postLocalMinIndex + StableSearchWindow) - 1
    IN FirstIdx({j \in postLocalMinIndex..hi :
                    j < n - 1 /\ Abs(At(d, j)) < StableThreshold},
                postLocalMinIndex)

\* lines 809-814: the indices j at which the stability scan reads diffData[j]
StableScanReads(s, d, peakFrame) ==
    LET n == Len(s)
        postLocalMinIndex == PostLocalMinIndex(s, d, peakFrame)
        hi == Min2(n, postLocalMinIndex + StableSearchWindow) - 1
        stable == {j \in postLocalMinIndex..hi :
                      j < n - 1 /\ Abs(At(d, j)) < StableThreshold}
    IN postLocalMinIndex..(IF stable = {} THEN hi ELSE MinOf(stable))

\* mutant: the lower bound taken exclusive
IsReasonableLengthExclusive(cycleLength) ==
    cycleLength > MinReasonableLength /\ cycleLength <= MaxReasonableLength

IsReasonableLength(cycleLength) ==
    cycleLength >= MinReasonableLength /\ cycleLength <= MaxReasonableLength

IsSequential(startFrame, lastEnd) == startFrame > lastEnd

\* mutant: the check startFrame < peakFrame left out
IsValidCycleNoStartCheck(startFrame, peakFrame, endFrame, lastEnd) ==
    /\ IsReasonableLength(endFrame - startFrame)
    /\ IsSequential(startFrame, lastEnd)
    /\ endFrame > peakFrame

IsValidCycle(startFrame, peakFrame, endFrame, lastEnd) ==
    /\ IsReasonableLength(endFrame - startFrame)
    /\ IsSequential(startFrame, lastEnd)
    /\ startFrame < peakFrame
    /\ endFrame > peakFrame

\* mutant: the remembered end is never advanced
LastEndNeverUpdated(accepted, endFrame, lastEnd) == lastEnd

\* line 850: lastEndFrame = endFrame, in the accepting branch only
UpdatedLastEnd(accepted, endFrame, lastEnd) ==
    IF accepted THEN endFrame ELSE lastEnd

CycleNumberOf(i, cycles) == i + 1

CycleRecord(i, cycles, startFrame, peakFrame, endFrame, s) ==
    [cycleNumber |-> CycleNumberOf(i, cycles),
     startFrame |-> startFrame,
     peakFrame |-> peakFrame,
     endFrame |-> endFrame,
     peakValue |-> At(s, peakFrame),
     duration |-> endFrame - startFrame]

\* `return []`
\* lines 828-833: the call extractCycleParameters(startFrame, endFrame,
\* processedData, i + 1), made before the cycle is pushed; segmented is the
\* number of cycles whose boundaries exist at that moment, this one included
ExtractCall(startFrame, endFrame, cycleNumber, cycles) ==
    [startFrame |-> startFrame,
     endFrame |-> endFrame,
     cycleNumber |-> cycleNumber,
     segmented |-> Len(cycles) + 1]

EmptyArrayResult == [shape |-> "array", length |-> 0]

ObjectResult(cycles, s, d, kept) ==
    [shape |-> "object", cycles |-> cycles, totalSwallows |-> Len(cycles),
     smoothedData |-> s, diffData |-> d, peaks |-> kept]

\* !r || !('cycles' in r) || !r.cycles || r.cycles.length === 0
NoCyclesIn(r) ==
    IF r.shape # "object" THEN TRUE ELSE Len(r.cycles) = 0

NoLog == [kind |-> "none"]

-----------------------------------------------------------------------------
(* The driver series explored: every concatenation of 1..MaxBlocks motifs. *)
(* Values are in 1/Scale: 10000 is a z-score of 1.0.                       *)

MaxBlocks == 6

Motifs ==
    << <<0, 0, 0, 0, 0>>,
       <<10000, -10000, -10000, 0, 0>>,
       <<10000, 0, 2000, 2000, 2000>> >>

RECURSIVE ConcatMotifs(_, _)
ConcatMotifs(choice, k) ==
    IF k > Len(choice) THEN << >>
    ELSE Motifs[choice[k]] \o ConcatMotifs(choice, k + 1)

DriverSeries ==
    {ConcatMotifs(c, 1) :
        c \in UNION {[1..k -> 1..Len(Motifs)] : k \in 1..MaxBlocks}}

\* Single bumps: series of 2 * BumpPeak frames at baseline 0 that rise to
\* BumpAmplitude at frame BumpPeak and fall afterwards, triangular of every
\* half-width, or Gaussian (2 exp(-d^2 / (2 sigma^2)) for sigma 2, 3 and 5,
\* in 1/Scale).
BumpPeak == 30
BumpLength == 2 * BumpPeak
BumpAmplitude == 2 * Scale

GaussianProfiles ==
    << <<20000, 17649, 12130, 6493, 2706, 878, 222, 43, 6>>,
       <<20000, 18919, 16014, 12130, 8222, 4987, 2706, 1314, 571, 222, 77, 24, 6, 1>>,
       <<20000, 19603, 18462, 16705, 14522, 12130, 9735, 7506, 5560, 3957, 2706,
         1778, 1122, 680, 396, 222, 119, 61, 30, 14, 6, 2, 1>> >>

TriangularBump(halfWidth) ==
    [k \in 1..BumpLength |->
        IF Abs(k - 1 - BumpPeak) >= halfWidth THEN 0
        ELSE (BumpAmplitude * (halfWidth - Abs(k - 1 - BumpPeak))) \div halfWidth]

GaussianBump(profile) ==
    [k \in 1..BumpLength |->
        IF Abs(k - 1 - BumpPeak) >= Len(profile) THEN 0
        ELSE profile[Abs(k - 1 - BumpPeak) + 1]]

Bumps ==
    {TriangularBump(w) : w \in 2..BumpPeak}
    \cup {GaussianBump(GaussianProfiles[g]) : g \in 1..Len(GaussianProfiles)}

\* Flat-topped bumps: a triangular bump cut off at half its height, so that
\* neighbouring frames of the top share the maximum.
MaxPlateau == 6

ClippedBump(halfWidth) ==
    [k \in 1..BumpLength |-> Min2(BumpAmplitude \div 2, TriangularBump(halfWidth)[k])]

Plateaus == {ClippedBump(w) : w \in 2..MaxPlateau}

\* Two bumps with a slow ramp before the second: a bump of height 2, a rest
\* at 0, RampLength frames rising by slope per frame, then a rise of 0.5 per
\* frame to the second peak, a fall of 0.5 per frame and a rest at 0.
RampLength == 10
RampSlopes == {0, 100, 170, 300}
BumpStep == Scale \div 2

TwoBumps(slope) ==
    <<0, 0, 0, 0, 0>>
    \o [k \in 1..7 |-> BumpStep * (4 - Abs(k - 4))]
    \o <<0, 0, 0, 0>>
    \o [k \in 1..RampLength |-> slope * k]
    \o [k \in 1..4 |-> slope * RampLength + BumpStep * k]
    \o [k \in 1..4 |-> slope * RampLength + BumpStep * (4 - k)]
    \o <<0, 0, 0, 0, 0, 0, 0, 0>>

Ramps == {TwoBumps(r) : r \in RampSlopes}

-----------------------------------------------------------------------------
(* Initial values of the variables a specification does not use *)

DetectIdle ==
    /\ zscoreData = << >>
    /\ pc = "off"
    /\ attempt = "default"
    /\ minPeakHeight = DefaultMinPeakHeight
    /\ minCycleLength = DefaultMinCycleLength
    /\ smoothedData = << >>
    /\ diffData = << >>
    /\ peaks = << >>
    /\ filteredPeaks = << >>
    /\ peakIdx = 0
    /\ swallowingCycles = << >>
    /\ lastEndFrame = -1
    /\ extractCalls = << >>
    /\ lastLog = NoLog
    /\ result = [shape |-> "none"]
    /\ swallowingAnalysis = [shape |-> "none"]
    /\ advancedData = [shape |-> "none"]
    /\ renderOutcome = "none"

ExtractIdle ==
    /\ xData = << >>
    /\ xStart = 0
    /\ xEnd = 0
    /\ xResult = << >>
    /\ xpc = "off"
    /\ xCycles = << >>
    /\ xIndex = 0
    /\ xTiming = << >>
    /\ xFps = Undefined

FilterIdle ==
    /\ fData = << >>
    /\ fResult = << >>
    /\ fpc = "off"

MaxJobs == 2

\* lines 1090-1099: the state of App before the first submission
PollIdle ==
    /\ jobId = 0
    /\ jobStatus = "null"
    /\ summary = 0
    /\ submitting = FALSE
    /\ pollTimer = 0
    /\ intervals = {}
    /\ backend = [j \in 1..MaxJobs |-> "none"]
    /\ inFlight = {}
    /\ requests = 0

ProcessIdle ==
    /\ frames = << >>
    /\ reference = 0
    /\ processed = << >>
    /\ ppc = "off"

-----------------------------------------------------------------------------
(* handleAdvancedAnalysis from the driver series on, with the calls of     *)
(* detectSwallowingCycles it makes.  The null entries the driver can hold  *)
(* enter the filter's arithmetic as 0, so the series is one of numbers.    *)
(* The parameter fields extractCycleParameters merges into an accepted     *)
(* cycle are modelled by ExtractParameters below; none of them is a        *)
(* boundary field of the cycle record.                                      *)

InitDetect ==
    /\ zscoreData \in DriverSeries \cup Bumps \cup Plateaus \cup Ramps
    /\ pc = "call"
    /\ attempt = "default"
    /\ minPeakHeight = DefaultMinPeakHeight
    /\ minCycleLength = DefaultMinCycleLength
    /\ smoothedData = << >>
    /\ diffData = << >>
    /\ peaks = << >>
    /\ filteredPeaks = << >>
    /\ peakIdx = 0
    /\ swallowingCycles = << >>
    /\ lastEndFrame = -1
    /\ extractCalls = << >>
    /\ lastLog = NoLog
    /\ result = [shape |-> "none"]
    /\ swallowingAnalysis = [shape |-> "none"]
    /\ advancedData = [shape |-> "none"]
    /\ renderOutcome = "none"
    /\ ExtractIdle
    /\ ProcessIdle
    /\ FilterIdle
    /\ PollIdle

\* line 675: if (zscoreData.length < minCycleLength) return [];
DetectTooShort ==
    /\ pc = "call"
    /\ Len(zscoreData) < minCycleLength
    /\ result' = EmptyArrayResult
    /\ pc' = "returned"
    /\ UNCHANGED <<extractCalls, zscoreData, attempt, minPeakHeight, minCycleLength,
                   smoothedData, diffData, peaks, filteredPeaks, peakIdx,
                   swallowingCycles, lastEndFrame, lastLog,
                   swallowingAnalysis, advancedData, renderOutcome>>
    /\ UNCHANGED <<extractVars, processVars, filterVars, pollVars>>

\* lines 678-739: smoothing, differences, peak detection and filtering
DetectPrepare ==
    /\ pc = "call"
    /\ ~(Len(zscoreData) < minCycleLength)
    /\ LET s == savitzkyGolayFilter(zscoreData, SmoothWindow)
       IN /\ smoothedData' = s
          /\ diffData' = FirstDifferences(s)
          /\ peaks' = DetectPeaks(s, minPeakHeight)
          /\ filteredPeaks' = FilterPeaks(DetectPeaks(s, minPeakHeight), s, minCycleLength)
    /\ swallowingCycles' = << >>
    /\ lastEndFrame' = -1
    /\ extractCalls' = << >>
    /\ peakIdx' = 0
    /\ lastLog' = NoLog
    /\ pc' = "loop"
    /\ UNCHANGED <<zscoreData, attempt, minPeakHeight, minCycleLength, result,
                   swallowingAnalysis, advancedData, renderOutcome>>
    /\ UNCHANGED <<extractVars, processVars, filterVars, pollVars>>

\* lines 741-857: one iteration of the cycle loop
CycleIteration ==
    /\ pc = "loop"
    /\ peakIdx < Len(filteredPeaks)
    /\ LET peakFrame == filteredPeaks[peakIdx + 1]
           startFrame == StartFrameOf(peakIdx, smoothedData, diffData, peakFrame, lastEndFrame)
           endFrame == EndFrameOf(smoothedData, diffData, peakFrame)
           accepted == IsValidCycle(startFrame, peakFrame, endFrame, lastEndFrame)
       IN /\ lastLog' = [kind |-> IF accepted THEN "accepted" ELSE "skipped",
                         candidate |-> peakIdx + 1,
                         startFrame |-> startFrame,
                         peakFrame |-> peakFrame,
                         endFrame |-> endFrame,
                         cycleLength |-> endFrame - startFrame]
          /\ swallowingCycles' =
                IF accepted
                   THEN Append(swallowingCycles,
                               CycleRecord(peakIdx, swallowingCycles, startFrame,
                                           peakFrame, endFrame, smoothedData))
                   ELSE swallowingCycles
          /\ extractCalls' =
                IF accepted
                   THEN Append(extractCalls,
                               ExtractCall(startFrame, endFrame,
                                           CycleNumberOf(peakIdx, swallowingCycles),
                                           swallowingCycles))
                   ELSE extractCalls
          /\ lastEndFrame' = UpdatedLastEnd(accepted, endFrame, lastEndFrame)
    /\ peakIdx' = peakIdx + 1
    /\ UNCHANGED <<zscoreData, pc, attempt, minPeakHeight, minCycleLength,
                   smoothedData, diffData, peaks, filteredPeaks, result,
                   swallowingAnalysis, advancedData, renderOutcome>>
    /\ UNCHANGED <<extractVars, processVars, filterVars, pollVars>>

\* lines 859-865: the object returned after the loop
DetectReturn ==
    /\ pc = "loop"
    /\ peakIdx = Len(filteredPeaks)
    /\ result' = ObjectResult(swallowingCycles, smoothedData, diffData, filteredPeaks)
    /\ pc' = "returned"
    /\ UNCHANGED <<extractCalls, zscoreData, attempt, minPeakHeight, minCycleLength,
                   smoothedData, diffData, peaks, filteredPeaks, peakIdx,
                   swallowingCycles, lastEndFrame, lastLog,
                   swallowingAnalysis, advancedData, renderOutcome>>
    /\ UNCHANGED <<extractVars, processVars, filterVars, pollVars>>

\* lines 1214-1221: the first result has no cycles: call again, relaxed
RetryRelaxed ==
    /\ pc = "returned"
    /\ attempt = "default"
    /\ NoCyclesIn(result)
    /\ swallowingAnalysis' = result
    /\ attempt' = "relaxed"
    /\ minPeakHeight' = RelaxedMinPeakHeight
    /\ minCycleLength' = RelaxedMinCycleLength
    /\ pc' = "call"
    /\ UNCHANGED <<extractCalls, zscoreData, smoothedData, diffData, peaks, filteredPeaks, peakIdx,
                   swallowingCycles, lastEndFrame, lastLog, result,
                   advancedData, renderOutcome>>
    /\ UNCHANGED <<extractVars, processVars, filterVars, pollVars>>

\* lines 1214-1218: the first result has cycles and is kept
KeepDefault ==
    /\ pc = "returned"
    /\ attempt = "default"
    /\ ~NoCyclesIn(result)
    /\ swallowingAnalysis' = result
    /\ pc' = "finalize"
    /\ UNCHANGED <<extractCalls, zscoreData, attempt, minPeakHeight, minCycleLength,
                   smoothedData, diffData, peaks, filteredPeaks, peakIdx,
                   swallowingCycles, lastEndFrame, lastLog, result,
                   advancedData, renderOutcome>>
    /\ UNCHANGED <<extractVars, processVars, filterVars, pollVars>>

\* lines 1224-1229: the relaxed result replaces the first one only if it has cycles
AfterRelaxed ==
    /\ pc = "returned"
    /\ attempt = "relaxed"
    /\ swallowingAnalysis' = IF ~NoCyclesIn(result) THEN result ELSE swallowingAnalysis
    /\ pc' = "finalize"
    /\ UNCHANGED <<extractCalls, zscoreData, attempt, minPeakHeight, minCycleLength,
                   smoothedData, diffData, peaks, filteredPeaks, peakIdx,
                   swallowingCycles, lastEndFrame, lastLog, result,
                   advancedData, renderOutcome>>
    /\ UNCHANGED <<extractVars, processVars, filterVars, pollVars>>

\* lines 1232-1239: setAdvancedData({...processedData, swallowingAnalysis})
SetAdvancedData ==
    /\ pc = "finalize"
    /\ advancedData' = [shape |-> "set", swallowingAnalysis |-> swallowingAnalysis]
    /\ pc' = "render"
    /\ UNCHANGED <<extractCalls, zscoreData, attempt, minPeakHeight, minCycleLength,
                   smoothedData, diffData, peaks, filteredPeaks, peakIdx,
                   swallowingCycles, lastEndFrame, lastLog, result,
                   swallowingAnalysis, renderOutcome>>
    /\ UNCHANGED <<extractVars, processVars, filterVars, pollVars>>

\* lines 3441-3498: advancedData.swallowingAnalysis && ( ... .cycles.map(...) )
\* an array is truthy and has no cycles property: .map of undefined throws
RenderCycleTable ==
    /\ pc = "render"
    /\ renderOutcome' =
          IF advancedData.swallowingAnalysis.shape = "object"
             THEN "table" ELSE "TypeError"
    /\ pc' = "done"
    /\ UNCHANGED <<extractCalls, zscoreData, attempt, minPeakHeight, minCycleLength,
                   smoothedData, diffData, peaks, filteredPeaks, peakIdx,
                   swallowingCycles, lastEndFrame, lastLog, result,
                   swallowingAnalysis, advancedData>>
    /\ UNCHANGED <<extractVars, processVars, filterVars, pollVars>>

NextDetect ==
    \/ DetectTooShort
    \/ DetectPrepare
    \/ CycleIteration
    \/ DetectReturn
    \/ RetryRelaxed
    \/ KeepDefault
    \/ AfterRelaxed
    \/ SetAdvancedData
    \/ RenderCycleTable

SpecDetect == InitDetect /\ [][NextDetect]_vars

-----------------------------------------------------------------------------
(* extractCycleParameters, lines 41-147: contraction ratio and aspiration  *)
(* risk.  Normalized areas and z-scores are in 1/Scale.                    *)

\* processedData.slice(startFrame, endFrame + 1)
Slice(data, startFrame, endFrame) ==
    SubSeq(data, startFrame + 1, Min2(endFrame + 1, Len(data)))

\* cycleData.map(row => row[field]).filter(val => val !== null)
RECURSIVE NonNull(_, _, _)
NonNull(data, field, k) ==
    IF k > Len(data) THEN << >>
    ELSE (IF IsNull(data[k][field]) THEN << >> ELSE <<Val(data[k][field])>>)
         \o NonNull(data, field, k + 1)

\* element idx (0-based) of [...values].sort((a, b) => a - b)
SortedAt(values, idx) ==
    LET candidates == {values[i] : i \in 1..Len(values)}
    IN CHOOSE v \in candidates :
          /\ Cardinality({i \in 1..Len(values) : values[i] < v}) <= idx
          /\ idx < Cardinality({i \in 1..Len(values) : values[i] <= v})

\* mutant: the largest sample taken for the 95th percentile
P95IndexLast(n) == n - 1

\* Math.floor(n * 0.95)
P95Index(n) == (n * 95) \div 100

\* Math.floor(n * 0.05)
P5Index(n) == (n * 5) \div 100

PcrOffsetMargin == Scale \div 10

\* lines 62-78: <<adjustedP5, adjustedP95>>
AdjustedPercentiles(p5Value, p95Value, minValue) ==
    IF p95Value < 0 /\ p5Value < 0
       THEN <<Abs(p5Value), Abs(p95Value)>>
    ELSE IF p95Value < 0 \/ p5Value < 0
       THEN <<p5Value + Abs(minValue) + PcrOffsetMargin,
              p95Value + Abs(minValue) + PcrOffsetMargin>>
    ELSE <<p5Value, p95Value>>

NearZero == Scale \div 100

\* lines 107-117: <<adjustedOverlap, adjustedVestibule>>; the second test is
\* the else branch of the first
AdjustedPair(overlap, vestibuleArea) ==
    IF Abs(vestibuleArea) < NearZero THEN <<overlap, NearZero>>
    ELSE IF Abs(overlap) < NearZero THEN <<NearZero, vestibuleArea>>
    ELSE <<overlap, vestibuleArea>>

\* a[1]/a[2] >= b[1]/b[2], for non-zero denominators
QuotientGE(a, b) ==
    LET sa == IF a[2] < 0 THEN -1 ELSE 1
        sb == IF b[2] < 0 THEN -1 ELSE 1
    IN (sa * a[1]) * (sb * b[2]) >= (sb * b[1]) * (sa * a[2])

\* lines 101-130: the entries pushed for the frames with both values
RECURSIVE OverlapDetails(_, _, _)
OverlapDetails(cycleData, startFrame, i) ==
    IF i >= Len(cycleData) THEN << >>
    ELSE LET overlap == At(cycleData, i).normalized_bolus_vestibule_overlap
             vestibuleArea == At(cycleData, i).normalized_vestibule
         IN (IF ~IsNull(overlap) /\ ~IsNull(vestibuleArea)
                THEN LET adj == AdjustedPair(Val(overlap), Val(vestibuleArea))
                     IN << [frame |-> startFrame + i,
                            normalizedOverlap |-> Val(overlap),
                            normalizedVestibule |-> Val(vestibuleArea),
                            adjustedOverlap |-> adj[1],
                            adjustedVestibule |-> adj[2],
                            ratio |-> Ratio(adj[1], adj[2])] >>
                ELSE << >>)
            \o OverlapDetails(cycleData, startFrame, i + 1)

\* Math.max(...overlapRatios): the first entry no other entry exceeds
MaxRatio(details) ==
    LET ratios == {details[i].ratio : i \in 1..Len(details)}
        largest == {r \in ratios :
                      \A q \in ratios : QuotientGE(<<r[2], r[3]>>, <<q[2], q[3]>>)}
    IN details[MinOf({i \in 1..Len(details) : details[i].ratio \in largest})].ratio

\* line 138: 0.2, as the quotient 2 / 10
aspirationThreshold == <<2, 10>>

\* mutant: the threshold taken exclusive
ExceedsThresholdStrict(ratio) ==
    ~QuotientGE(aspirationThreshold, <<ratio[2], ratio[3]>>)

\* line 139: maxOverlapRatio >= aspirationThreshold
ReachesThreshold(ratio) ==
    QuotientGE(<<ratio[2], ratio[3]>>, aspirationThreshold)

\* lines 45-81 and 633-640
PcrFields(pharynxZScore) ==
    LET n == Len(pharynxZScore)
        p95Value == SortedAt(pharynxZScore, P95Index(n))
        p5Value == SortedAt(pharynxZScore, P5Index(n))
        minValue == MinOf({pharynxZScore[i] : i \in 1..n})
        adj == AdjustedPercentiles(p5Value, p95Value, minValue)
    IN [PCR |-> Ratio(adj[1], adj[2]),
        PCR_p95 |-> p95Value,
        PCR_p5 |-> p5Value,
        PCR_adjusted_p95 |-> adj[2],
        PCR_adjusted_p5 |-> adj[1],
        PCR_frames |-> n,
        PCR_hasNegativeValues |-> (p95Value < 0 \/ p5Value < 0)]

\* lines 89-147 and 641-645
AspirationFields(cycleData, startFrame) ==
    LET bolusVestibuleOverlap == NonNull(cycleData, "normalized_bolus_vestibule_overlap", 1)
        vestibule == NonNull(cycleData, "normalized_vestibule", 1)
        details == IF Len(bolusVestibuleOverlap) > 0 /\ Len(vestibule) > 0
                      THEN OverlapDetails(cycleData, startFrame, 0) ELSE << >>
    IN IF Len(details) > 0
          THEN [aspirationRisk |-> Bool(ReachesThreshold(MaxRatio(details))),
                maxOverlapRatio |-> MaxRatio(details),
                aspirationThreshold |-> aspirationThreshold,
                overlapRatioDetails |-> List(details)]
          ELSE [aspirationRisk |-> Null,
                maxOverlapRatio |-> Null,
                aspirationThreshold |-> aspirationThreshold,
                overlapRatioDetails |-> Null]

-----------------------------------------------------------------------------
(* extractCycleParameters, lines 149-631: the landmarks.  Each search runs *)
(* on the series of the cycle's non-null values, indexed from 0, and a     *)
(* landmark frame is startFrame plus an index of that series.              *)

Max2(a, b) == IF a > b THEN a ELSE b

\* lines 181-189 (and 284-292): index of the first largest value
ArgMaxFirst(s) ==
    LET maxValue == MaxOf({At(s, i) : i \in 0..(Len(s) - 1)})
    IN MinOf({i \in 0..(Len(s) - 1) : At(s, i) = maxValue})

\* diffData[i], lines 218-221; undefined outside 0..n-2
HasDiff(s, i) == i >= 0 /\ i < Len(s) - 1

Diff(s, i) == At(s, i + 1) - At(s, i)

\* secondDiffData[i], lines 498-501; undefined outside 0..n-3
HasSecondDiff(s, i) == i >= 0 /\ i < Len(s) - 2

SecondDiff(s, i) == Diff(s, i + 1) - Diff(s, i)

\* lines 196-212: the rows of processedData that carry a cycleNumber
AllCycles(processedData) ==
    SelectSeq(processedData, LAMBDA row : "cycleNumber" \in DOMAIN row)

\* allCycles.findIndex(row => row.cycleNumber === cycleNumber), -1 if none
CycleIndexOf(allCycles, cycleNumber) ==
    LET hits == {k \in 0..(Len(allCycles) - 1) : At(allCycles, k).cycleNumber = cycleNumber}
    IN IF hits = {} THEN -1 ELSE MinOf(hits)

\* lines 199-212, 308-321, 442-454
SearchStartFrame(startFrame, processedData, cycleNumber) ==
    LET allCycles == AllCycles(processedData)
        cycleIndex == CycleIndexOf(allCycles, cycleNumber)
    IN IF cycleIndex > 0
          THEN IF "endFrame" \in DOMAIN At(allCycles, cycleIndex - 1)
                  THEN Max2(0, At(allCycles, cycleIndex - 1).endFrame)
                  ELSE startFrame
          ELSE startFrame

\* lines 309-329, 443-462: ownEnd is the end computed from the cycle's series
SearchEndFrame(ownEnd, processedData, cycleNumber) ==
    LET allCycles == AllCycles(processedData)
        cycleIndex == CycleIndexOf(allCycles, cycleNumber)
    IN IF cycleIndex >= 0 /\ cycleIndex < Len(allCycles) - 1
          THEN IF "startFrame" \in DOMAIN At(allCycles, cycleIndex + 1)
                  THEN At(allCycles, cycleIndex + 1).startFrame
                  ELSE ownEnd
          ELSE ownEnd

SlopeStop == (5 * Scale) \div 100
SlopeTurn == (15 * Scale) \div 100
CurvatureTurn == (10 * Scale) \div 100

\* the index a scan ends with that visits the indices of order in turn,
\* starts from index first, and moves to a visited index only when its
\* value is strictly smaller (wantMin) or strictly larger than the current
\* one: the first visited index with the extreme value, if that value is
\* better than the one at first
ScanExtreme(s, order, first, wantMin) ==
    LET values == {At(s, order[k]) : k \in 1..Len(order)} \cup {At(s, first)}
        extreme == IF wantMin THEN MinOf(values) ELSE MaxOf(values)
    IN IF extreme = At(s, first) THEN first
       ELSE order[MinOf({k \in 1..Len(order) : At(s, order[k]) = extreme})]

\* the indices from..to in descending order
Downward(from, to) == [k \in 1..Max2(0, from - to + 1) |-> from - (k - 1)]

\* the indices from..to in ascending order
Upward(from, to) == [k \in 1..Max2(0, to - from + 1) |-> from + (k - 1)]

\* the part of order up to and including the first index where stop holds
UntilStop(order, stop(_)) ==
    LET hits == {k \in 1..Len(order) : stop(order[k])}
    IN IF hits = {} THEN order ELSE SubSeq(order, 1, MinOf(hits))

\* lines 227-264 and 335-374: the valley before the peak
ValleyBefore(s, maxIndex, searchStartInCycle) ==
    LET order == Downward(maxIndex - 1, searchStartInCycle)
        turns == {k \in 1..Len(order) :
                    /\ order[k] > 0
                    /\ Diff(s, order[k] - 1) < 0
                    /\ Diff(s, order[k]) > 0}
        rising(i) == i > 0 /\ At(s, i) - At(s, i - 1) > SlopeStop
    IN IF turns # {} THEN order[MinOf(turns)]
       ELSE ScanExtreme(s, UntilStop(order, rising), maxIndex, TRUE)

\* lines 381-420: the valley after the peak
ValleyAfter(s, maxIndex, searchEndInCycle) ==
    LET order == Upward(maxIndex + 1, searchEndInCycle)
        turns == {k \in 1..Len(order) :
                    /\ HasDiff(s, order[k])
                    /\ Diff(s, order[k] - 1) > 0
                    /\ Diff(s, order[k]) < 0}
        rising(i) == i < Len(s) - 1 /\ At(s, i + 1) - At(s, i) > SlopeStop
    IN IF turns # {} THEN order[MinOf(turns)]
       ELSE ScanExtreme(s, UntilStop(order, rising), maxIndex, TRUE)

\* lines 151-277
HybFields(hyoidC4Distance, startFrame, processedData, cycleNumber) ==
    IF Len(hyoidC4Distance) = 0
       THEN [HYB |-> Null, HYB_peakFrame |-> Null, HYB_valleyFrame |-> Null,
             HYB_peakValue |-> Null, HYB_valleyValue |-> Null]
    ELSE LET maxIndex == ArgMaxFirst(hyoidC4Distance)
             searchStartFrame == SearchStartFrame(startFrame, processedData, cycleNumber)
             searchStartInCycle == Max2(0, searchStartFrame - startFrame)
             valleyIndex == ValleyBefore(hyoidC4Distance, maxIndex, searchStartInCycle)
         IN [HYB |-> Num(startFrame + valleyIndex),
             HYB_peakFrame |-> Num(startFrame + maxIndex),
             HYB_valleyFrame |-> Num(startFrame + valleyIndex),
             HYB_peakValue |-> Num(At(hyoidC4Distance, maxIndex)),
             HYB_valleyValue |-> Num(At(hyoidC4Distance, valleyIndex))]

\* lines 181-270 on a series of NaN: no comparison with NaN holds, so the
\* peak stays at index 0 and no search moves away from it
HybFieldsNaN(startFrame) ==
    [HYB |-> Num(startFrame), HYB_peakFrame |-> Num(startFrame),
     HYB_valleyFrame |-> Num(startFrame),
     HYB_peakValue |-> NaN, HYB_valleyValue |-> NaN]

\* lines 284-424 on a series of NaN
UesFieldsNaN(startFrame) ==
    [UESO |-> Num(startFrame), UESC |-> Num(startFrame),
     UES_peakFrame |-> Num(startFrame), UES_peakValue |-> NaN,
     UES_beforeValleyFrame |-> Num(startFrame), UES_afterValleyFrame |-> Num(startFrame),
     UES_beforeValleyValue |-> NaN, UES_afterValleyValue |-> NaN]

\* lines 280-432
UesFields(uesLength, startFrame, processedData, cycleNumber) ==
    IF Len(uesLength) = 0
       THEN [UESO |-> Null, UESC |-> Null, UES_peakFrame |-> Null, UES_peakValue |-> Null,
             UES_beforeValleyFrame |-> Null, UES_afterValleyFrame |-> Null,
             UES_beforeValleyValue |-> Null, UES_afterValleyValue |-> Null]
    ELSE LET maxIndex == ArgMaxFirst(uesLength)
             searchStartFrame == SearchStartFrame(startFrame, processedData, cycleNumber)
             searchEndFrame == SearchEndFrame(startFrame + Len(uesLength) - 1,
                                              processedData, cycleNumber)
             searchStartInCycle == Max2(0, searchStartFrame - startFrame)
             searchEndInCycle == Min2(Len(uesLength) - 1, searchEndFrame - startFrame)
             beforeValleyIndex == ValleyBefore(uesLength, maxIndex, searchStartInCycle)
             afterValleyIndex == ValleyAfter(uesLength, maxIndex, searchEndInCycle)
         IN [UESO |-> Num(startFrame + beforeValleyIndex),
             UESC |-> Num(startFrame + afterValleyIndex),
             UES_peakFrame |-> Num(startFrame + maxIndex),
             UES_peakValue |-> Num(At(uesLength, maxIndex)),
             UES_beforeValleyFrame |-> Num(startFrame + beforeValleyIndex),
             UES_afterValleyFrame |-> Num(startFrame + afterValleyIndex),
             UES_beforeValleyValue |-> Num(At(uesLength, beforeValleyIndex)),
             UES_afterValleyValue |-> Num(At(uesLength, afterValleyIndex))]

\* lines 473-487: the lowest value of the window, vestibuleData[0] if none is lower
Valley1Index(s, searchStartInCycle, searchEndInCycle) ==
    ScanExtreme(s, Upward(searchStartInCycle, searchEndInCycle), 0, TRUE)

\* lines 492-555: the peak before valley 1
PeakBefore(s, valley1Index, searchStartInCycle) ==
    LET order == Downward(valley1Index - 1, searchStartInCycle)
        bends == {k \in 1..Len(order) :
                    /\ order[k] > 1
                    /\ SecondDiff(s, order[k] - 2) > CurvatureTurn
                    /\ SecondDiff(s, order[k] - 1) < -CurvatureTurn}
        turns == {k \in 1..Len(order) :
                    /\ order[k] > 0
                    /\ Diff(s, order[k] - 1) > SlopeTurn
                    /\ Diff(s, order[k]) < -SlopeTurn}
        falling(i) == i > 0 /\ At(s, i + 1) - At(s, i) < -SlopeTurn
    IN IF bends # {} THEN order[MinOf(bends)]
       ELSE IF turns # {} THEN order[MinOf(turns)]
       ELSE ScanExtreme(s, UntilStop(order, falling), valley1Index, FALSE)

\* lines 561-618: valley 2, after valley 1
Valley2Index(s, valley1Index, searchEndInCycle) ==
    LET order == Upward(valley1Index + 1, searchEndInCycle)
        bends == {k \in 1..Len(order) :
                    /\ order[k] > 1
                    /\ HasSecondDiff(s, order[k] - 1)
                    /\ SecondDiff(s, order[k] - 2) < -CurvatureTurn
                    /\ SecondDiff(s, order[k] - 1) > CurvatureTurn}
        turns == {k \in 1..Len(order) :
                    /\ order[k] > 0
                    /\ HasDiff(s, order[k])
                    /\ Diff(s, order[k] - 1) < -SlopeTurn
                    /\ Diff(s, order[k]) > SlopeTurn}
        rising(i) == i < Len(s) - 1 /\ At(s, i + 1) - At(s, i) > SlopeTurn
    IN IF bends # {} THEN order[MinOf(bends)]
       ELSE IF turns # {} THEN order[MinOf(turns)]
       ELSE ScanExtreme(s, UntilStop(order, rising), valley1Index, TRUE)

\* lines 435-631; vestibuleCount is vestibule.length of line 90
LvcFields(vestibuleData, vestibuleCount, startFrame, processedData, cycleNumber) ==
    IF Len(vestibuleData) = 0
       THEN [LVC |-> Null, LVCoff |-> Null, LVC_peakFrame |-> Null, LVC_peakValue |-> Null,
             LVC_valley1Frame |-> Null, LVC_valley2Frame |-> Null,
             LVC_valley1Value |-> Null, LVC_valley2Value |-> Null]
    ELSE LET searchStartFrame == SearchStartFrame(startFrame, processedData, cycleNumber)
             searchEndFrame == SearchEndFrame(startFrame + vestibuleCount - 1,
                                              processedData, cycleNumber)
             searchStartInCycle == Max2(0, searchStartFrame - startFrame)
             searchEndInCycle == Min2(Len(vestibuleData) - 1, searchEndFrame - startFrame)
             valley1Index == Valley1Index(vestibuleData, searchStartInCycle, searchEndInCycle)
             peakIndex == PeakBefore(vestibuleData, valley1Index, searchStartInCycle)
             valley2Index == Valley2Index(vestibuleData, valley1Index, searchEndInCycle)
         IN [LVC |-> Num(startFrame + peakIndex),
             LVCoff |-> Num(startFrame + valley2Index),
             LVC_peakFrame |-> Num(startFrame + peakIndex),
             LVC_peakValue |-> Num(At(vestibuleData, peakIndex)),
             LVC_valley1Frame |-> Num(startFrame + valley1Index),
             LVC_valley2Frame |-> Num(startFrame + valley2Index),
             LVC_valley1Value |-> Num(At(vestibuleData, valley1Index)),
             LVC_valley2Value |-> Num(At(vestibuleData, valley2Index))]

\* merge of two records with disjoint fields
Merge(r1, r2) ==
    [f \in (DOMAIN r1) \cup (DOMAIN r2) |->
        IF f \in DOMAIN r1 THEN r1[f] ELSE r2[f]]

\* the non-null values of the field are NaN: the distance group's mean is
\* NaN (lines 980-1009), which makes every value standardized with it NaN
AllNaN(cycleData, field) ==
    /\ \E k \in 1..Len(cycleData) : ~IsNull(cycleData[k][field])
    /\ \A k \in 1..Len(cycleData) :
         IsNull(cycleData[k][field]) \/ cycleData[k][field] = NaN

\* the element of a one-element set
The(S) == CHOOSE x \in S : TRUE

\* lines 54-670, from the five series of the cycle
ParametersOf(series, cycleData, startFrame, processedData, cycleNumber) ==
    Merge(Merge(PcrFields(series.pharynxZScore),
                AspirationFields(cycleData, startFrame)),
          Merge(IF series.hyoidNaN THEN HybFieldsNaN(startFrame)
                ELSE HybFields(series.hyoidC4Distance, startFrame, processedData, cycleNumber),
                Merge(IF series.uesNaN THEN UesFieldsNaN(startFrame)
                      ELSE UesFields(series.uesLength, startFrame, processedData, cycleNumber),
                      LvcFields(series.vestibuleData, Len(series.vestibule),
                                startFrame, processedData, cycleNumber))))

\* lines 41-671; the series are computed once and then used as values
extractCycleParameters(startFrame, endFrame, processedData, cycleNumber) ==
    The({IF Len(series.pharynxZScore) = 0 THEN [PCR |-> Null]
         ELSE ParametersOf(series, series.cycleData, startFrame, processedData, cycleNumber) :
            series \in
              {[cycleData |-> cycleData,
                pharynxZScore |-> NonNull(cycleData, "zscore_pharynx", 1),
                hyoidNaN |-> AllNaN(cycleData, "zscore_hyoid_c4_distance"),
                hyoidC4Distance |->
                    IF AllNaN(cycleData, "zscore_hyoid_c4_distance") THEN << >>
                    ELSE NonNull(cycleData, "zscore_hyoid_c4_distance", 1),
                uesNaN |-> AllNaN(cycleData, "zscore_ues_length"),
                uesLength |->
                    IF AllNaN(cycleData, "zscore_ues_length") THEN << >>
                    ELSE NonNull(cycleData, "zscore_ues_length", 1),
                vestibuleData |-> NonNull(cycleData, "zscore_vestibule", 1),
                vestibule |-> NonNull(cycleData, "normalized_vestibule", 1)] :
                 cycleData \in {Slice(processedData, startFrame, endFrame)}}})

-----------------------------------------------------------------------------
(* The cycles explored.  A row of processedData is either a frame without  *)
(* a usable calibration length (every normalized and standardized value    *)
(* null) or a frame with all of them numbers, as processAdvancedData       *)
(* produces them.  A cycle is up to MaxRuns runs of equal rows, each run   *)
(* of 1 or LongRun rows, long enough to pass the validation of the cycle   *)
(* loop.                                                                    *)

MaxRuns == 3
LongRun == 19

\* the fields of a row of processedData that extractCycleParameters reads
Row(pharynx, hyoid, ues, vestibuleZ, overlap, vestibuleArea) ==
    [zscore_pharynx |-> pharynx,
     zscore_hyoid_c4_distance |-> hyoid,
     zscore_ues_length |-> ues,
     zscore_vestibule |-> vestibuleZ,
     normalized_bolus_vestibule_overlap |-> overlap,
     normalized_vestibule |-> vestibuleArea]

\* a row whose four standardized values are equal
XRow(z, o, v) == Row(z, z, z, z, o, v)

\* lines 891-920: row i is without values exactly when frame i has no valid
\* calibration length of its own and i is not below the number of frames
\* that have one; so the rows before the first row without values are at
\* least as many as the rows with values after it
PipelineShaped(rows) ==
    LET empty == {i \in 1..Len(rows) : IsNull(rows[i].zscore_pharynx)}
        prefix == IF empty = {} THEN Len(rows) ELSE MinOf(empty) - 1
    IN Cardinality({i \in (prefix + 1)..Len(rows) : ~IsNull(rows[i].zscore_pharynx)})
          <= prefix

\* the boundaries of an accepted cycle, lines 835-839
Boundaries(cycleNumber, startFrame, endFrame) ==
    [cycleNumber |-> cycleNumber, startFrame |-> startFrame, endFrame |-> endFrame]

RowKinds ==
    << XRow(Null, Null, Null),
       XRow(Num(-20000), Num(0), Num(50)),
       XRow(Num(-5000), Num(2000), Num(10000)),
       XRow(Num(10000), Num(1999), Num(10000)),
       XRow(Num(0), Num(50), Num(400)) >>

RECURSIVE ExpandRuns(_, _)
ExpandRuns(runs, k) ==
    IF k > Len(runs) THEN << >>
    ELSE [i \in 1..runs[k][2] |-> RowKinds[runs[k][1]]] \o ExpandRuns(runs, k + 1)

CycleInputs ==
    {ExpandRuns(r, 1) :
        r \in UNION {[1..k -> (1..Len(RowKinds)) \X {1, LongRun}] : k \in 1..MaxRuns}}

InitExtract ==
    /\ xData \in CycleInputs
    /\ PipelineShaped(xData)
    /\ xStart \in {0, 1}
    /\ xEnd = Len(xData) - 1
    /\ xEnd - xStart >= MinReasonableLength
    /\ xCycles = <<Boundaries(1, xStart, xEnd)>>
    /\ xIndex = 1
    /\ xResult = << >>
    /\ xTiming = << >>
    /\ xFps = Undefined
    /\ xpc = "call"
    /\ DetectIdle
    /\ ProcessIdle
    /\ FilterIdle
    /\ PollIdle

\* lines 48-52: no valid pharynx sample: return { PCR: null }
ExtractNoPharynx ==
    /\ xpc = "call"
    /\ Len(NonNull(Slice(xData, xStart, xEnd), "zscore_pharynx", 1)) = 0
    /\ xResult' = extractCycleParameters(xStart, xEnd, xData,
                                          xCycles[xIndex].cycleNumber)
    /\ xpc' = "done"
    /\ UNCHANGED <<xData, xStart, xEnd, xCycles, xIndex, xTiming, xFps>>
    /\ UNCHANGED <<detectVars, processVars, filterVars, pollVars>>

\* lines 54-670
ExtractParameters ==
    /\ xpc = "call"
    /\ LET cycleData == Slice(xData, xStart, xEnd)
           pharynxZScore == NonNull(cycleData, "zscore_pharynx", 1)
       IN /\ Len(pharynxZScore) > 0
          /\ xResult' = extractCycleParameters(xStart, xEnd, xData,
                                                xCycles[xIndex].cycleNumber)
    /\ xpc' = "done"
    /\ UNCHANGED <<xData, xStart, xEnd, xCycles, xIndex, xTiming, xFps>>
    /\ UNCHANGED <<detectVars, processVars, filterVars, pollVars>>

\* the default of the fps parameter, line 674, and of line 1214
DefaultFps == 30

\* summary.fps || 30, line 1214
FrameRate(fps) == IF Falsy(fps) THEN DefaultFps ELSE Val(fps)

\* const fps = 30, line 3703
TableFps == 30

\* lines 835-847: the pushed cycle: boundaries, times in seconds and the
\* spread parameters
PushedCycle(boundaries, cycleParameters, fps) ==
    Merge([cycleNumber |-> Num(boundaries.cycleNumber),
           startFrame |-> Num(boundaries.startFrame),
           endFrame |-> Num(boundaries.endFrame),
           duration |-> Num(boundaries.endFrame - boundaries.startFrame),
           startTime |-> Ratio(boundaries.startFrame, fps),
           endTime |-> Ratio(boundaries.endFrame, fps),
           durationTime |-> Ratio(boundaries.endFrame - boundaries.startFrame, fps)],
          cycleParameters)

\* cycle[name]: undefined when the record has no such property
Property(cycle, name) == IF name \in DOMAIN cycle THEN cycle[name] ELSE Undefined

\* a !== null && b !== null ? a - b : null, lines 3706-3731; undefined is
\* not null, and an undefined operand makes the difference NaN
FrameDifference(a, b) ==
    IF ~IsNull(a) /\ ~IsNull(b)
       THEN IF IsNum(a) /\ IsNum(b) THEN Num(Val(a) - Val(b)) ELSE NaN
       ELSE Null

\* frames !== null ? frames / fps : null, lines 3708-3733
Seconds(difference) ==
    IF IsNull(difference) THEN Null
    ELSE IF IsNum(difference) THEN Ratio(Val(difference), TableFps) ELSE NaN

\* the frame differences of lines 3701-3733
TimingFrames(cycle) ==
    [swallowReactionTimeFrames |->
        FrameDifference(Property(cycle, "HYB"), Property(cycle, "startFrame")),
     pharyngealResponseTimeFrames |->
        FrameDifference(Property(cycle, "UESO"), Property(cycle, "HYB")),
     uesOpenDurationFrames |->
        FrameDifference(Property(cycle, "UESC"), Property(cycle, "UESO")),
     lvcReactionTimeFrames |->
        FrameDifference(Property(cycle, "LVC"), Property(cycle, "HYB")),
     lvcDurationFrames |->
        FrameDifference(Property(cycle, "LVCoff"), Property(cycle, "LVC"))]

\* lines 3701-3733: the frame differences and their values in seconds
TimingRow(cycle) ==
    The({Merge(timing,
               [swallowReactionTimeSeconds |-> Seconds(timing.swallowReactionTimeFrames),
                pharyngealResponseTimeSeconds |-> Seconds(timing.pharyngealResponseTimeFrames),
                uesOpenDurationSeconds |-> Seconds(timing.uesOpenDurationFrames),
                lvcReactionTimeSeconds |-> Seconds(timing.lvcReactionTimeFrames),
                lvcDurationSeconds |-> Seconds(timing.lvcDurationFrames)]) :
            timing \in {TimingFrames(cycle)}})

\* lines 3701-3733: the timing-parameter table renders the cycle
RenderTimingRow ==
    /\ xpc = "done"
    /\ xTiming' = TimingRow(PushedCycle(xCycles[xIndex], xResult, FrameRate(xFps)))
    /\ xpc' = "rendered"
    /\ UNCHANGED <<xData, xStart, xEnd, xCycles, xIndex, xResult, xFps>>
    /\ UNCHANGED <<detectVars, processVars, filterVars, pollVars>>

NextExtract ==
    \/ ExtractNoPharynx
    \/ ExtractParameters
    \/ RenderTimingRow

-----------------------------------------------------------------------------
(* The recordings explored for the landmarks: up to MaxSegments segments   *)
(* of SegmentLength rows, each segment one of LandmarkMotifs.  A motif     *)
(* gives a level per row, or NoLevel for a row without calibration (every  *)
(* value null); the three landmark series follow the level through three   *)
(* different maps, so that their shapes differ.  The recording comes with  *)
(* a segmentation into one or two cycles, one of which is extracted.       *)

MaxSegments == 4
NoLevel == 0 - 1

LandmarkMotifs ==
    << <<1, 2, 3, 3>>,
       <<3, 2, 1, 0>>,
       <<1, 1, 2, 0>>,
       <<NoLevel, 1, 3, 1>>,
       <<NoLevel, NoLevel, NoLevel, NoLevel>> >>

SegmentLength == Len(LandmarkMotifs[1])

VestibuleLevel == <<2, 0, 3, 1>>

LevelRow(level) ==
    IF level = NoLevel THEN Row(Null, Null, Null, Null, Null, Null)
    ELSE Row(Num(level * Scale),
             Num(level * Scale),
             Num((3 - level) * Scale),
             Num(VestibuleLevel[level + 1] * Scale),
             Num(0),
             Num(Scale))

RECURSIVE MotifRows(_, _)
MotifRows(choice, k) ==
    IF k > Len(choice) THEN << >>
    ELSE [i \in 1..SegmentLength |-> LevelRow(LandmarkMotifs[choice[k]][i])]
         \o MotifRows(choice, k + 1)

LandmarkRecordings ==
    {MotifRows(choice, 1) :
        choice \in UNION {[1..k -> 1..Len(LandmarkMotifs)] : k \in 1..MaxSegments}}

FirstCycleEnd == MinReasonableLength

\* the segmentations of a recording of n frames: one cycle over (almost)
\* all of it, or a first cycle 0..FirstCycleEnd and a second one up to the
\* last frame, starting right after the first or two frames later
Segmentations(n) ==
    {<<Boundaries(1, s, n - 1)>> : s \in {s \in {0, 1} : n - 1 - s >= MinReasonableLength}}
    \cup
    {<<Boundaries(1, 0, FirstCycleEnd), Boundaries(2, s, n - 1)>> :
        s \in {s \in {FirstCycleEnd + 1, FirstCycleEnd + 3} :
                 n - 1 - s >= MinReasonableLength}}

\* the recording as it is when the distance group's mean is NaN
DistancesNaN(rows) ==
    [k \in 1..Len(rows) |->
        IF IsNull(rows[k].zscore_pharynx) THEN rows[k]
        ELSE [rows[k] EXCEPT !.zscore_hyoid_c4_distance = NaN,
                             !.zscore_ues_length = NaN]]

InitLandmark ==
    /\ xData \in LandmarkRecordings \cup {DistancesNaN(r) : r \in LandmarkRecordings}
    /\ PipelineShaped(xData)
    /\ xCycles \in Segmentations(Len(xData))
    /\ xIndex \in 1..Len(xCycles)
    /\ xStart = xCycles[xIndex].startFrame
    /\ xEnd = xCycles[xIndex].endFrame
    /\ xResult = << >>
    /\ xTiming = << >>
    /\ xFps = Undefined
    /\ xpc = "call"
    /\ DetectIdle
    /\ ProcessIdle
    /\ FilterIdle
    /\ PollIdle

SpecLandmark == InitLandmark /\ [][NextExtract]_vars

\* the frame rates a recording supplies: none, 0, or a rate
FrameRates == {Undefined, Num(0), Num(25), Num(DefaultFps), Num(2 * DefaultFps)}

TimingSegments == 2

\* short recordings, each with every frame rate
InitTiming ==
    /\ xData \in {r \in LandmarkRecordings : Len(r) <= TimingSegments * SegmentLength}
    /\ PipelineShaped(xData)
    /\ xCycles \in Segmentations(Len(xData))
    /\ xIndex \in 1..Len(xCycles)
    /\ xStart = xCycles[xIndex].startFrame
    /\ xEnd = xCycles[xIndex].endFrame
    /\ xResult = << >>
    /\ xTiming = << >>
    /\ xFps \in FrameRates
    /\ xpc = "call"
    /\ DetectIdle
    /\ ProcessIdle
    /\ FilterIdle
    /\ PollIdle

SpecTiming == InitTiming /\ [][NextExtract]_vars

SpecExtract == InitExtract /\ [][NextExtract]_vars

-----------------------------------------------------------------------------
(* Properties of detectSwallowingCycles and of the handler's use of it *)

NonOverlapping(cycles) ==
    \A k \in 1..(Len(cycles) - 1) : cycles[k].endFrame < cycles[k + 1].startFrame

\* C1: in the cycle list, while it is built and as returned, every cycle ends
\* strictly before the next one starts, also when candidates between them
\* were rejected.
C1_NonOverlap ==
    /\ NonOverlapping(swallowingCycles)
    /\ (result.shape = "object" => NonOverlapping(result.cycles))

\* two consecutive cycles of a returned list with a rejected candidate between
C1_Witness ==
    /\ pc = "returned"
    /\ result.shape = "object"
    /\ \E k \in 1..(Len(result.cycles) - 1) :
          result.cycles[k + 1].cycleNumber > result.cycles[k].cycleNumber + 1

Ordered(cycles) ==
    \A k \in 1..Len(cycles) :
        /\ cycles[k].startFrame < cycles[k].peakFrame
        /\ cycles[k].peakFrame < cycles[k].endFrame

\* C2: every cycle of the list satisfies startFrame < peakFrame < endFrame.
C2_Ordering ==
    /\ Ordered(swallowingCycles)
    /\ (result.shape = "object" => Ordered(result.cycles))

\* a returned list with a cycle, in a call where a later candidate started at
\* its own peak and was dropped
C2_Witness ==
    /\ pc = "returned"
    /\ result.shape = "object"
    /\ Len(result.cycles) >= 1
    /\ lastLog.kind = "skipped"
    /\ lastLog.startFrame = lastLog.peakFrame

\* C3: a candidate is appended exactly when its length is within 5..200, it
\* starts after the end of the last accepted cycle and start < peak < end;
\* a rejected candidate appends nothing, leaves lastEndFrame alone, and the
\* loop moves on to the next peak.
C3_Validation ==
    [][(pc = "loop" /\ lastLog' # lastLog) =>
        LET c == lastLog'
            ok == /\ c.endFrame - c.startFrame >= MinReasonableLength
                  /\ c.endFrame - c.startFrame <= MaxReasonableLength
                  /\ c.startFrame > lastEndFrame
                  /\ c.startFrame < c.peakFrame
                  /\ c.peakFrame < c.endFrame
        IN /\ c.candidate = peakIdx + 1
           /\ c.peakFrame = filteredPeaks[peakIdx + 1]
           /\ peakIdx' = peakIdx + 1
           /\ IF ok
                 THEN /\ c.kind = "accepted"
                      /\ Len(swallowingCycles') = Len(swallowingCycles) + 1
                      /\ SubSeq(swallowingCycles', 1, Len(swallowingCycles)) = swallowingCycles
                      /\ LET new == swallowingCycles'[Len(swallowingCycles')]
                         IN /\ new.startFrame = c.startFrame
                            /\ new.peakFrame = c.peakFrame
                            /\ new.endFrame = c.endFrame
                            /\ new.duration = c.endFrame - c.startFrame
                      /\ lastEndFrame' = c.endFrame
                 ELSE /\ c.kind = "skipped"
                      /\ swallowingCycles' = swallowingCycles
                      /\ lastEndFrame' = lastEndFrame]_vars

\* a candidate rejected after a cycle was accepted, the remembered end kept
C3_Witness ==
    /\ pc = "loop"
    /\ lastLog.kind = "skipped"
    /\ Len(swallowingCycles) >= 1
    /\ lastEndFrame = swallowingCycles[Len(swallowingCycles)].endFrame

SequentiallyNumbered(cycles) ==
    \A k \in 1..Len(cycles) : cycles[k].cycleNumber = k

\* C4: the k-th cycle of the list has cycleNumber k, also when candidates
\* were skipped.
C4_SequentialNumbers ==
    /\ SequentiallyNumbered(swallowingCycles)
    /\ (result.shape = "object" => SequentiallyNumbered(result.cycles))

\* C5: a driver series shorter than minCycleLength gives the result of any
\* other call: an object with an empty cycles sequence and totalSwallows 0,
\* which the cycle table can render.
C5_EmptyListShape ==
    /\ (pc = "returned" /\ Len(zscoreData) < minCycleLength) =>
          IF result.shape = "object"
             THEN result.cycles = << >> /\ result.totalSwallows = 0
             ELSE FALSE
    /\ renderOutcome # "TypeError"

-----------------------------------------------------------------------------
(* Properties of extractCycleParameters *)

CycleRows == Slice(xData, xStart, xEnd)

FramesWithBoth ==
    {i \in 1..Len(CycleRows) :
        /\ ~IsNull(CycleRows[i].normalized_bolus_vestibule_overlap)
        /\ ~IsNull(CycleRows[i].normalized_vestibule)}

Extracted == xpc \in {"done", "rendered"}

ClampNearZero(v) == IF Abs(v) < NearZero THEN NearZero ELSE v

\* C7: the ratio entries of a cycle are those of its frames with both values,
\* in frame order, and each is ClampNearZero(overlap) / ClampNearZero(vestibule),
\* each operand clamped on its own.
C7_IndependentClamp ==
    (Extracted /\ FramesWithBoth # {}) =>
        LET details == xResult.overlapRatioDetails[2]
        IN /\ Len(details) = Cardinality(FramesWithBoth)
           /\ \A k \in 1..Len(details) :
                LET i == details[k].frame - xStart + 1
                IN /\ i \in FramesWithBoth
                   /\ details[k].ratio =
                        Ratio(ClampNearZero(Val(CycleRows[i].normalized_bolus_vestibule_overlap)),
                              ClampNearZero(Val(CycleRows[i].normalized_vestibule)))

\* C8: PCR is null exactly when the cycle has no pharynx sample; otherwise it
\* is adjusted5 / adjusted95 for the samples of rank floor(0.05 n) and
\* floor(0.95 n) in ascending order: absolute values when both are negative,
\* both raised by |minimum| + 0.1 when exactly one is, unchanged otherwise.
C8_ContractionRatio ==
    Extracted =>
        LET samples == NonNull(CycleRows, "zscore_pharynx", 1)
            n == Len(samples)
        IN IF n = 0 THEN xResult.PCR = Null
           ELSE LET p5 == SortedAt(samples, (5 * n) \div 100)
                    p95 == SortedAt(samples, (95 * n) \div 100)
                    lowest == MinOf({samples[i] : i \in 1..n})
                    shift == Abs(lowest) + Scale \div 10
                IN xResult.PCR =
                     (IF p5 < 0 /\ p95 < 0 THEN Ratio(-p5, -p95)
                      ELSE IF p5 < 0 \/ p95 < 0 THEN Ratio(p5 + shift, p95 + shift)
                      ELSE Ratio(p5, p95))

\* a cycle of more than 20 samples whose 5th percentile is negative, whose
\* 95th is not, and whose 95th percentile is below its largest sample
C8_Witness ==
    /\ Extracted
    /\ "PCR_p5" \in DOMAIN xResult
    /\ xResult.PCR_frames > 20
    /\ xResult.PCR_p5 < 0
    /\ xResult.PCR_p95 >= 0
    /\ \E i \in 1..Len(CycleRows) :
         /\ ~IsNull(CycleRows[i].zscore_pharynx)
         /\ Val(CycleRows[i].zscore_pharynx) > xResult.PCR_p95

-----------------------------------------------------------------------------
(* processAdvancedData, lines 869-1028, and the calibration reference of   *)
(* handleAdvancedAnalysis, lines 1185-1199.  Areas are numbers; the        *)
(* calibration length and the two distances are numbers or null (type      *)
(* Summary, lines 1048-1061).  All measurements are in 1/Scale.            *)


\* array[index], undefined beyond the end
EntryAt(s, index) == IF index < Len(s) THEN Num(At(s, index)) ELSE Undefined

\* series.filter(d => d !== null)
RECURSIVE Compact(_, _)
Compact(series, k) ==
    IF k > Len(series) THEN << >>
    ELSE (IF IsNull(series[k]) THEN << >> ELSE <<Val(series[k])>>)
         \o Compact(series, k + 1)

\* series.filter(d => d !== null && d > 0)
RECURSIVE CompactPositive(_, _)
CompactPositive(series, k) ==
    IF k > Len(series) THEN << >>
    ELSE (IF ~IsNull(series[k]) /\ Val(series[k]) > 0 THEN <<Val(series[k])>> ELSE << >>)
         \o CompactPositive(series, k + 1)

Column(originalAreas, field) ==
    [k \in 1..Len(originalAreas) |-> originalAreas[k][field]]

\* lines 883-892
SmoothedSeries(originalAreas) ==
    [bolus_pharynx_overlap |->
        savitzkyGolayFilter(Column(originalAreas, "bolus_pharynx_overlap"), SmoothWindow),
     bolus_vestibule_overlap |->
        savitzkyGolayFilter(Column(originalAreas, "bolus_vestibule_overlap"), SmoothWindow),
     pharynx |-> savitzkyGolayFilter(Column(originalAreas, "pharynx"), SmoothWindow),
     vestibule |-> savitzkyGolayFilter(Column(originalAreas, "vestibule"), SmoothWindow),
     bolus |-> savitzkyGolayFilter(Column(originalAreas, "bolus"), SmoothWindow),
     hyoid_c4_distance |->
        savitzkyGolayFilter(Compact(Column(originalAreas, "hyoid_c4_distance"), 1), SmoothWindow),
     ues_length |->
        savitzkyGolayFilter(Compact(Column(originalAreas, "ues_length"), 1), SmoothWindow),
     c2c4_length |->
        savitzkyGolayFilter(CompactPositive(Column(originalAreas, "c2c4_length"), 1), SmoothWindow)]

\* line 896: smoothedData.c2c4_length[index] || area.c2c4_length
C2C4LengthAt(smoothed, area, index) ==
    LET own == EntryAt(smoothed.c2c4_length, index)
    IN IF Falsy(own) THEN area.c2c4_length ELSE own

\* line 897: !c2c4Length || c2c4Length <= 0
NoCalibration(c2c4Length) ==
    IF Falsy(c2c4Length) THEN TRUE ELSE Val(c2c4Length) <= 0

\* value * (referenceC2C4 / c2c4Length)
Scaled(value, referenceC2C4, c2c4Length) ==
    (value * referenceC2C4) \div c2c4Length

\* lines 939-944: the entry of a compacted series, times the squared factor;
\* an entry is never null, and undefined times a number is NaN
ScaledDistance(entry, referenceC2C4, c2c4Length) ==
    IF IsNull(entry) THEN Null
    ELSE IF IsNum(entry)
       THEN Num(Scaled(Scaled(Val(entry), referenceC2C4, c2c4Length),
                       referenceC2C4, c2c4Length))
    ELSE NaN

\* lines 895-954: one row, before standardization
NormalizedRow(smoothed, area, index, referenceC2C4) ==
    LET c2c4Length == C2C4LengthAt(smoothed, area, index)
        valid == ~NoCalibration(c2c4Length)
        len == IF valid THEN Val(c2c4Length) ELSE 1
        areaOf(s) == IF valid THEN Num(Scaled(At(s, index), referenceC2C4, len)) ELSE Null
    IN [frame |-> index,
        smoothed_bolus_pharynx_overlap |-> At(smoothed.bolus_pharynx_overlap, index),
        smoothed_bolus_vestibule_overlap |-> At(smoothed.bolus_vestibule_overlap, index),
        smoothed_pharynx |-> At(smoothed.pharynx, index),
        smoothed_vestibule |-> At(smoothed.vestibule, index),
        smoothed_bolus |-> At(smoothed.bolus, index),
        normalized_bolus_pharynx_overlap |-> areaOf(smoothed.bolus_pharynx_overlap),
        normalized_bolus_vestibule_overlap |-> areaOf(smoothed.bolus_vestibule_overlap),
        normalized_pharynx |-> areaOf(smoothed.pharynx),
        normalized_vestibule |-> areaOf(smoothed.vestibule),
        normalized_bolus |-> areaOf(smoothed.bolus),
        normalized_hyoid_c4_distance |->
            IF valid THEN ScaledDistance(EntryAt(smoothed.hyoid_c4_distance, index),
                                         referenceC2C4, len)
            ELSE Null,
        normalized_ues_length |->
            IF valid THEN ScaledDistance(EntryAt(smoothed.ues_length, index),
                                         referenceC2C4, len)
            ELSE Null,
        zscore_bolus_pharynx_overlap |-> Null,
        zscore_bolus_vestibule_overlap |-> Null,
        zscore_pharynx |-> Null,
        zscore_vestibule |-> Null,
        zscore_bolus |-> Null,
        zscore_hyoid_c4_distance |-> Null,
        zscore_ues_length |-> Null]

areaParameterNames ==
    <<"normalized_bolus_pharynx_overlap", "normalized_bolus_vestibule_overlap",
      "normalized_pharynx", "normalized_vestibule", "normalized_bolus">>

distanceParameterNames ==
    <<"normalized_hyoid_c4_distance", "normalized_ues_length">>

\* lines 969-975: every non-null value of the group's parameters
RECURSIVE GroupValues(_, _, _, _)
GroupValues(paramNames, data, p, k) ==
    IF p > Len(paramNames) THEN << >>
    ELSE IF k > Len(data) THEN GroupValues(paramNames, data, p + 1, 1)
    ELSE (IF IsNull(data[k][paramNames[p]]) THEN << >> ELSE <<data[k][paramNames[p]]>>)
         \o GroupValues(paramNames, data, p, k + 1)

RECURSIVE SumOf(_, _)
SumOf(s, k) == IF k > Len(s) THEN 0 ELSE s[k] + SumOf(s, k + 1)

\* the largest r in lo..hi with r * r <= n
RECURSIVE SqrtBetween(_, _, _)
SqrtBetween(n, lo, hi) ==
    IF lo >= hi THEN lo
    ELSE LET mid == (lo + hi + 1) \div 2
         IN IF mid * mid <= n THEN SqrtBetween(n, mid, hi)
            ELSE SqrtBetween(n, lo, mid - 1)

SqrtLimit == 46340

\* Math.sqrt of a variance in 1/Scale, in 1/Scale
Sqrt(variance) == SqrtBetween(variance * Scale, 0, SqrtLimit)

\* lines 977-984; a NaN among the values makes the mean NaN and the
\* deviation, which is then not > 0, 1
calculateGroupZScore(paramNames, data) ==
    LET groupValues == GroupValues(paramNames, data, 1, 1)
        n == Len(groupValues)
    IN IF n = 0 THEN [mean |-> Num(0), stdDev |-> Scale]
       ELSE IF \E k \in 1..n : ~IsNum(groupValues[k])
          THEN [mean |-> NaN, stdDev |-> Scale]
       ELSE LET values == [k \in 1..n |-> Val(groupValues[k])]
                mean == SumOf(values, 1) \div n
                variance ==
                    SumOf([k \in 1..n |-> ((values[k] - mean) * (values[k] - mean)) \div Scale], 1)
                        \div n
                stdDev == Sqrt(variance)
            IN [mean |-> Num(mean), stdDev |-> IF stdDev > 0 THEN stdDev ELSE Scale]

\* lines 998-1001 and 1007-1010: (normalizedValue - mean) / stdDev
Standardized(normalizedValue, stats) ==
    IF IsNull(normalizedValue) THEN Null
    ELSE IF IsNum(normalizedValue) /\ IsNum(stats.mean)
       THEN Num(((Val(normalizedValue) - Val(stats.mean)) * Scale) \div stats.stdDev)
    ELSE NaN

\* lines 994-1012
StandardizedRow(row, areaStats, distanceStats) ==
    [row EXCEPT
        !.zscore_bolus_pharynx_overlap = Standardized(row.normalized_bolus_pharynx_overlap, areaStats),
        !.zscore_bolus_vestibule_overlap = Standardized(row.normalized_bolus_vestibule_overlap, areaStats),
        !.zscore_pharynx = Standardized(row.normalized_pharynx, areaStats),
        !.zscore_vestibule = Standardized(row.normalized_vestibule, areaStats),
        !.zscore_bolus = Standardized(row.normalized_bolus, areaStats),
        !.zscore_hyoid_c4_distance = Standardized(row.normalized_hyoid_c4_distance, distanceStats),
        !.zscore_ues_length = Standardized(row.normalized_ues_length, distanceStats)]

\* lines 1014-1027
ProcessedResult(normalizedData, areaStats, distanceStats, referenceC2C4) ==
    [reference |-> referenceC2C4,
     processedData |->
        [k \in 1..Len(normalizedData) |->
            StandardizedRow(normalizedData[k], areaStats, distanceStats)],
     areaStats |-> [mean |-> areaStats.mean, stdDev |-> areaStats.stdDev,
                    parameterCount |-> Len(areaParameterNames)],
     distanceStats |-> [mean |-> distanceStats.mean, stdDev |-> distanceStats.stdDev,
                        parameterCount |-> Len(distanceParameterNames)]]

\* lines 895-954, every row
NormalizedData(smoothed, originalAreas, referenceC2C4) ==
    [k \in 1..Len(originalAreas) |->
        NormalizedRow(smoothed, originalAreas[k], k - 1, referenceC2C4)]

\* each intermediate result is computed once and then used as a value
processAdvancedData(originalAreas, referenceC2C4) ==
    The({ProcessedResult(normalizedData, areaStats, distanceStats, referenceC2C4) :
            <<normalizedData, areaStats, distanceStats>> \in
                {<<nd, calculateGroupZScore(areaParameterNames, nd),
                   calculateGroupZScore(distanceParameterNames, nd)>> :
                    nd \in {NormalizedData(smoothed, originalAreas, referenceC2C4) :
                              smoothed \in {SmoothedSeries(originalAreas)}}}})

\* lines 1185-1199: the median of the valid calibration lengths
MedianReference(validC2C4Lengths) ==
    LET n == Len(validC2C4Lengths)
        midIndex == n \div 2
    IN IF n % 2 = 0
          THEN (SortedAt(validC2C4Lengths, midIndex - 1)
                + SortedAt(validC2C4Lengths, midIndex)) \div 2
          ELSE SortedAt(validC2C4Lengths, midIndex)

-----------------------------------------------------------------------------
(* The recordings explored: up to MaxFrames frames, each one of FrameKinds: *)
(* a fully measured frame (its two distances are equal, so that a group   *)
(* of equal values occurs), a frame without coordinate system (no          *)
(* calibration length, no distances), a calibrated frame whose hyoid was   *)
(* not located, and a frame with calibration length 0 and no UES length.   *)

MaxFrames == 6

Area(c2c4, hyoid, ues, pharynx, vestibule, bolus, bpo, bvo) ==
    [c2c4_length |-> c2c4, hyoid_c4_distance |-> hyoid, ues_length |-> ues,
     pharynx |-> pharynx, vestibule |-> vestibule, bolus |-> bolus,
     bolus_pharynx_overlap |-> bpo, bolus_vestibule_overlap |-> bvo]

FrameKinds ==
    << Area(Num(20000), Num(10000), Num(10000), 20000, 10000, 5000, 2000, 1000),
       Area(Null, Null, Null, 10000, 5000, 0, 0, 0),
       Area(Num(40000), Null, Num(8000), 16000, 8000, 4000, 4000, 0),
       Area(Num(0), Num(6000), Null, 12000, 6000, 2000, 0, 2000) >>

Recordings ==
    UNION {[1..n -> {FrameKinds[k] : k \in 1..Len(FrameKinds)}] : n \in 1..MaxFrames}

InitProcess ==
    /\ frames \in Recordings
    /\ reference = 0
    /\ processed = << >>
    /\ ppc = "start"
    /\ DetectIdle
    /\ ExtractIdle
    /\ FilterIdle
    /\ PollIdle

\* lines 1191-1193 and 1247-1256: no valid calibration length: the error is
\* caught, the message is stored and setAdvancedData(null) resets the result
NoValidC2C4 ==
    /\ ppc = "start"
    /\ Len(CompactPositive(Column(frames, "c2c4_length"), 1)) = 0
    /\ ppc' = "error"
    /\ advancedData' = [shape |-> "null"]
    /\ UNCHANGED <<frames, reference, processed>>
    /\ UNCHANGED <<extractCalls, zscoreData, pc, attempt, minPeakHeight, minCycleLength,
                   smoothedData, diffData, peaks, filteredPeaks, peakIdx,
                   swallowingCycles, lastEndFrame, lastLog, result,
                   swallowingAnalysis, renderOutcome>>
    /\ UNCHANGED <<extractVars, filterVars, pollVars>>

\* lines 1185-1199
ComputeReference ==
    /\ ppc = "start"
    /\ LET validC2C4Lengths == CompactPositive(Column(frames, "c2c4_length"), 1)
       IN /\ Len(validC2C4Lengths) > 0
          /\ reference' = MedianReference(validC2C4Lengths)
    /\ ppc' = "process"
    /\ UNCHANGED <<frames, processed>>
    /\ UNCHANGED <<detectVars, extractVars, filterVars, pollVars>>

\* line 1205
ProcessAdvancedData ==
    /\ ppc = "process"
    /\ processed' = processAdvancedData(frames, reference)
    /\ ppc' = "done"
    /\ UNCHANGED <<frames, reference>>
    /\ UNCHANGED <<detectVars, extractVars, filterVars, pollVars>>

NextProcess ==
    \/ NoValidC2C4
    \/ ComputeReference
    \/ ProcessAdvancedData

SpecProcess == InitProcess /\ [][NextProcess]_vars

-----------------------------------------------------------------------------
(* Properties of processAdvancedData *)

Processed == ppc = "done"

normalizedNames == areaParameterNames \o distanceParameterNames

zscoreNames ==
    <<"zscore_bolus_pharynx_overlap", "zscore_bolus_vestibule_overlap",
      "zscore_pharynx", "zscore_vestibule", "zscore_bolus",
      "zscore_hyoid_c4_distance", "zscore_ues_length">>

OwnCalibrationMissing(area) ==
    IF IsNull(area.c2c4_length) THEN TRUE ELSE Val(area.c2c4_length) <= 0

\* C9: in the output of processAdvancedData every frame whose own C2-C4
\* length is null or not positive has every normalized and every
\* standardized value null.
C9_UncalibratedFrameAbsent ==
    Processed =>
        \A k \in 1..Len(frames) :
            OwnCalibrationMissing(frames[k]) =>
                /\ \A p \in 1..Len(normalizedNames) :
                     processed.processedData[k][normalizedNames[p]] = Null
                /\ \A p \in 1..Len(zscoreNames) :
                     processed.processedData[k][zscoreNames[p]] = Null

\* C10: the output has one row per frame, and where the raw hyoid-C4
\* distance or the raw UES length of frame i is null, the normalized and the
\* standardized value of that parameter are null in row i.
C10_FrameAlignedSeries ==
    Processed =>
        /\ Len(processed.processedData) = Len(frames)
        /\ \A k \in 1..Len(frames) :
             /\ IsNull(frames[k].hyoid_c4_distance) =>
                  /\ processed.processedData[k].normalized_hyoid_c4_distance = Null
                  /\ processed.processedData[k].zscore_hyoid_c4_distance = Null
             /\ IsNull(frames[k].ues_length) =>
                  /\ processed.processedData[k].normalized_ues_length = Null
                  /\ processed.processedData[k].zscore_ues_length = Null

-----------------------------------------------------------------------------
(* Properties of the landmarks of extractCycleParameters *)

LandmarkPairs ==
    << <<"HYB_peakFrame", "HYB_peakValue", "zscore_hyoid_c4_distance">>,
       <<"HYB_valleyFrame", "HYB_valleyValue", "zscore_hyoid_c4_distance">>,
       <<"UES_peakFrame", "UES_peakValue", "zscore_ues_length">>,
       <<"UES_beforeValleyFrame", "UES_beforeValleyValue", "zscore_ues_length">>,
       <<"UES_afterValleyFrame", "UES_afterValleyValue", "zscore_ues_length">>,
       <<"LVC_peakFrame", "LVC_peakValue", "zscore_vestibule">>,
       <<"LVC_valley1Frame", "LVC_valley1Value", "zscore_vestibule">>,
       <<"LVC_valley2Frame", "LVC_valley2Value", "zscore_vestibule">> >>

HasLandmarks == Extracted /\ "HYB" \in DOMAIN xResult

\* C11: for every reported landmark (frame, value) pair, the row of the
\* reported frame holds the reported value in the landmark's driving series,
\* also when rows of the cycle before the landmark have no value.
C11_LandmarkFrameHoldsValue ==
    HasLandmarks =>
        \A p \in 1..Len(LandmarkPairs) :
            LET frame == xResult[LandmarkPairs[p][1]]
                value == xResult[LandmarkPairs[p][2]]
            IN ~IsNull(frame) =>
                 /\ Val(frame) < Len(xData)
                 /\ At(xData, Val(frame))[LandmarkPairs[p][3]] = value

DrivingSeries ==
    << <<"zscore_pharynx", <<"PCR">> >>,
       <<"zscore_hyoid_c4_distance", <<"HYB", "HYB_peakFrame", "HYB_valleyFrame">> >>,
       <<"zscore_ues_length", <<"UESO", "UESC", "UES_peakFrame">> >>,
       <<"zscore_vestibule", <<"LVC", "LVCoff", "LVC_peakFrame">> >> >>

NoValidSample(field) ==
    \A k \in 1..Len(CycleRows) : ~IsNum(CycleRows[k][field])

Absent(name) ==
    IF name \in DOMAIN xResult THEN xResult[name] = Null ELSE TRUE

\* the parameters of the p-th driving series as they come out of that series
\* of the cycle alone
OwnSeriesParameters(p) ==
    LET own == NonNull(CycleRows, DrivingSeries[p][1], 1)
    IN CASE p = 1 -> PcrFields(own)
         [] p = 2 -> HybFields(own, xStart, << >>, 0)
         [] p = 3 -> UesFields(own, xStart, << >>, 0)
         [] OTHER -> LvcFields(own, Len(own), xStart, << >>, 0)

\* C12: a parameter whose driving series has no valid sample in the cycle is
\* reported absent, and a parameter whose driving series has one has the
\* value computed from that series alone.
C12_FailuresAreLocal ==
    Extracted =>
        \A p \in 1..Len(DrivingSeries) :
            \A n \in 1..Len(DrivingSeries[p][2]) :
                LET name == DrivingSeries[p][2][n]
                IN IF NoValidSample(DrivingSeries[p][1]) THEN Absent(name)
                   ELSE /\ name \in DOMAIN xResult
                        /\ xResult[name] = OwnSeriesParameters(p)[name]

HasPrevious == xIndex > 1
HasNext == xIndex < Len(xCycles)

\* the window the claim gives the searches: from the previous cycle's end
\* (the cycle's own start if there is none) to the next cycle's start
WindowStart == IF HasPrevious THEN Max2(0, xCycles[xIndex - 1].endFrame) ELSE xStart
WindowEnd == IF HasNext THEN xCycles[xIndex + 1].startFrame ELSE xEnd

WindowRows == Slice(xData, WindowStart, WindowEnd)

WindowComplete ==
    \A k \in 1..Len(WindowRows) :
        /\ IsNum(WindowRows[k].zscore_hyoid_c4_distance)
        /\ IsNum(WindowRows[k].zscore_ues_length)
        /\ IsNum(WindowRows[k].zscore_vestibule)

\* the landmarks when each search runs over the window, the peaks of the
\* hyoid and UES series being those of the cycle
WidenedLandmarks ==
    LET offset == xStart - WindowStart
        last == Len(WindowRows) - 1
        hyoid == NonNull(WindowRows, "zscore_hyoid_c4_distance", 1)
        ues == NonNull(WindowRows, "zscore_ues_length", 1)
        vestibuleData == NonNull(WindowRows, "zscore_vestibule", 1)
        hyoidPeak == offset + ArgMaxFirst(NonNull(CycleRows, "zscore_hyoid_c4_distance", 1))
        uesPeak == offset + ArgMaxFirst(NonNull(CycleRows, "zscore_ues_length", 1))
        valley1 == Valley1Index(vestibuleData, 0, last)
    IN [HYB |-> Num(WindowStart + ValleyBefore(hyoid, hyoidPeak, 0)),
        UESO |-> Num(WindowStart + ValleyBefore(ues, uesPeak, 0)),
        UESC |-> Num(WindowStart + ValleyAfter(ues, uesPeak, last)),
        LVC |-> Num(WindowStart + PeakBefore(vestibuleData, valley1, 0)),
        LVCoff |-> Num(WindowStart + Valley2Index(vestibuleData, valley1, last))]

\* C13: for a cycle with a previous or a next cycle, the landmark searches
\* cover the frames back to the previous cycle's end and up to the next
\* cycle's start, so each landmark is the one the search finds in that
\* window, also when it lies outside startFrame..endFrame.
C13_WidenedSearch ==
    (HasLandmarks /\ (HasPrevious \/ HasNext) /\ WindowComplete) =>
        /\ xResult.HYB = WidenedLandmarks.HYB
        /\ xResult.UESO = WidenedLandmarks.UESO
        /\ xResult.UESC = WidenedLandmarks.UESC
        /\ xResult.LVC = WidenedLandmarks.LVC
        /\ xResult.LVCoff = WidenedLandmarks.LVCoff

Intervals ==
    << <<"swallowReactionTimeFrames", "HYB", "startFrame">>,
       <<"pharyngealResponseTimeFrames", "UESO", "HYB">>,
       <<"uesOpenDurationFrames", "UESC", "UESO">>,
       <<"lvcReactionTimeFrames", "LVC", "HYB">>,
       <<"lvcDurationFrames", "LVCoff", "LVC">> >>

Rendered == xpc = "rendered"

\* C15: each interval of the timing table is the signed difference of its
\* two endpoint frames when the cycle has both, and absent (null) when an
\* endpoint is missing, as for a cycle whose extraction returned only a null
\* PCR.
C15_IntervalsNeedBothEndpoints ==
    Rendered =>
        \A n \in 1..Len(Intervals) :
            LET cycle == PushedCycle(xCycles[xIndex], xResult, FrameRate(xFps))
                a == Property(cycle, Intervals[n][2])
                b == Property(cycle, Intervals[n][3])
            IN IF IsNum(a) /\ IsNum(b)
                  THEN xTiming[Intervals[n][1]] = Num(Val(a) - Val(b))
                  ELSE xTiming[Intervals[n][1]] = Null

Returned == pc = "returned" /\ result.shape = "object"

\* C14: every call of the extraction is made when the boundaries of all the
\* cycles of the returned list have been fixed, and the boundaries it is
\* given are those the cycle has in the returned list.
C14_ExtractionAfterSegmentation ==
    Returned =>
        /\ Len(extractCalls) = Len(result.cycles)
        /\ \A k \in 1..Len(extractCalls) :
              /\ extractCalls[k].segmented = Len(result.cycles)
              /\ extractCalls[k].startFrame = result.cycles[k].startFrame
              /\ extractCalls[k].endFrame = result.cycles[k].endFrame
              /\ extractCalls[k].cycleNumber = result.cycles[k].cycleNumber

\* the quotient r is n / d
SameQuotient(r, n, d) ==
    IF r[1] = "ratio" THEN r[2] * d = n * r[3] ELSE FALSE

SecondsOf ==
    << <<"swallowReactionTimeFrames", "swallowReactionTimeSeconds">>,
       <<"pharyngealResponseTimeFrames", "pharyngealResponseTimeSeconds">>,
       <<"uesOpenDurationFrames", "uesOpenDurationSeconds">>,
       <<"lvcReactionTimeFrames", "lvcReactionTimeSeconds">>,
       <<"lvcDurationFrames", "lvcDurationSeconds">> >>

\* C17: every value in seconds reported for a cycle is the value in frames
\* divided by the recording's frame rate, which is 30 only when the
\* recording supplies none.
C17_SecondsUseFrameRate ==
    Rendered =>
        LET rate == IF IsNum(xFps) /\ Val(xFps) > 0 THEN Val(xFps) ELSE DefaultFps
            cycle == PushedCycle(xCycles[xIndex], xResult, FrameRate(xFps))
        IN /\ SameQuotient(cycle.startTime, xStart, rate)
           /\ SameQuotient(cycle.endTime, xEnd, rate)
           /\ SameQuotient(cycle.durationTime, xEnd - xStart, rate)
           /\ \A n \in 1..Len(SecondsOf) :
                 IsNum(xTiming[SecondsOf[n][1]]) =>
                    SameQuotient(xTiming[SecondsOf[n][2]],
                                 Val(xTiming[SecondsOf[n][1]]), rate)

\* C16: with no valid calibration length in the recording the analysis ends
\* without an uncaught exception and its result is set, with an empty list
\* of cycles.
C16_DegradesWithoutCalibration ==
    (ppc = "error") =>
        IF advancedData.shape = "set"
           THEN IF advancedData.swallowingAnalysis.shape = "object"
                   THEN advancedData.swallowingAnalysis.cycles = << >>
                   ELSE FALSE
           ELSE FALSE

\* every measurement of every frame multiplied by k
Multiplied(originalAreas, k) ==
    LET times(x) == IF IsNum(x) THEN Num(k * Val(x)) ELSE x
    IN [f \in 1..Len(originalAreas) |->
          Area(times(originalAreas[f].c2c4_length),
               times(originalAreas[f].hyoid_c4_distance),
               times(originalAreas[f].ues_length),
               k * originalAreas[f].pharynx, k * originalAreas[f].vestibule,
               k * originalAreas[f].bolus, k * originalAreas[f].bolus_pharynx_overlap,
               k * originalAreas[f].bolus_vestibule_overlap)]

\* the recording whose measurements are those of originalAreas divided by k
Divided(originalAreas, k) ==
    LET over(x) == IF IsNum(x) THEN Num(Val(x) \div k) ELSE x
    IN [f \in 1..Len(originalAreas) |->
          Area(over(originalAreas[f].c2c4_length),
               over(originalAreas[f].hyoid_c4_distance),
               over(originalAreas[f].ues_length),
               originalAreas[f].pharynx \div k, originalAreas[f].vestibule \div k,
               originalAreas[f].bolus \div k, originalAreas[f].bolus_pharynx_overlap \div k,
               originalAreas[f].bolus_vestibule_overlap \div k)]

SameNormalized(rows, others) ==
    /\ Len(rows) = Len(others)
    /\ \A k \in 1..Len(rows) :
          \A p \in 1..Len(normalizedNames) :
              rows[k][normalizedNames[p]] = others[k][normalizedNames[p]]

\* C18: when the recording is another recording with every measurement
\* multiplied by k, and the reference is k times the other reference, the
\* normalized values of the two outputs of processAdvancedData are the same.
C18_ScaleInvariance ==
    Processed =>
        \A k \in {2, 4} :
            (/\ Multiplied(Divided(frames, k), k) = frames
             /\ k * (reference \div k) = reference)
            => SameNormalized(processed.processedData,
                              processAdvancedData(Divided(frames, k),
                                                  reference \div k).processedData)

areaZScoreNames == SubSeq(zscoreNames, 1, Len(areaParameterNames))
distanceZScoreNames == SubSeq(zscoreNames, Len(areaParameterNames) + 1, Len(zscoreNames))

\* the tolerance of "0" and "1" for values in 1/Scale
Tolerance == Scale \div 100

\* mean and population standard deviation of a series of numbers
PooledStats(values) ==
    LET n == Len(values)
        mean == SumOf(values, 1) \div n
        variance ==
            SumOf([k \in 1..n |-> ((values[k] - mean) * (values[k] - mean)) \div Scale], 1)
                \div n
    IN [mean |-> mean, stdDev |-> Sqrt(variance)]

StandardizedGroup(names) ==
    LET pooled == GroupValues(names, processed.processedData, 1, 1)
    IN (Len(pooled) > 0) =>
          /\ \A k \in 1..Len(pooled) : IsNum(pooled[k])
          /\ LET stats == PooledStats([k \in 1..Len(pooled) |-> Val(pooled[k])])
             IN /\ Abs(stats.mean) <= Tolerance
                /\ Abs(stats.stdDev - Scale) <= Tolerance

\* C19: after the standardization, the standardized values of the area
\* group have pooled mean 0 and pooled population standard deviation 1, and
\* so have those of the distance group, whenever the group has a value.
C19_GroupMeanZeroDeviationOne ==
    Processed =>
        /\ StandardizedGroup(areaZScoreNames)
        /\ StandardizedGroup(distanceZScoreNames)

-----------------------------------------------------------------------------
(* savitzkyGolayFilter on its own: the series explored are the constant    *)
(* series of up to MaxLength samples and the same series with the last     *)
(* sample raised by one.                                                   *)

MaxLength == 8
MaxConstant == 6

ConstantSeries(n, c) == [k \in 1..n |-> c]

FilterInputs ==
    LET constants == {l * (Scale \div 4) : l \in (0 - MaxConstant)..MaxConstant}
        flat == {ConstantSeries(n, c) : n \in 0..MaxLength, c \in constants}
    IN flat \cup {[s EXCEPT ![Len(s)] = s[Len(s)] + Scale] : s \in flat \ {<< >>}}

InitFilter ==
    /\ fData \in FilterInputs
    /\ fResult = << >>
    /\ fpc = "call"
    /\ DetectIdle
    /\ ExtractIdle
    /\ ProcessIdle
    /\ PollIdle

\* line 15: a series shorter than the window is returned as it is
FilterShort ==
    /\ fpc = "call"
    /\ Len(fData) < SmoothWindow
    /\ fResult' = savitzkyGolayFilter(fData, SmoothWindow)
    /\ fpc' = "returned"
    /\ UNCHANGED fData
    /\ UNCHANGED <<detectVars, extractVars, processVars, pollVars>>

\* lines 17-37
FilterSmooth ==
    /\ fpc = "call"
    /\ Len(fData) >= SmoothWindow
    /\ fResult' = savitzkyGolayFilter(fData, SmoothWindow)
    /\ fpc' = "returned"
    /\ UNCHANGED fData
    /\ UNCHANGED <<detectVars, extractVars, processVars, pollVars>>

NextFilter ==
    \/ FilterShort
    \/ FilterSmooth

SpecFilter == InitFilter /\ [][NextFilter]_vars

IsConstant(s) == \A a, b \in 1..Len(s) : s[a] = s[b]

\* C20: the filter returns a constant series of any length, below, at or
\* above the window size, as it is: same length, every element, the edge
\* elements included, equal to the constant.
C20_ConstantFixedPoint ==
    (fpc = "returned" /\ IsConstant(fData)) =>
        /\ Len(fResult) = Len(fData)
        /\ \A k \in 1..Len(fData) : fResult[k] = fData[k]

\* a constant series other than 0, longer than the window, has been smoothed
C20_Witness ==
    /\ fpc = "returned"
    /\ IsConstant(fData)
    /\ Len(fData) > SmoothWindow
    /\ fData[1] # 0
    /\ fResult = fData

-----------------------------------------------------------------------------
(* Properties of the steps of detectSwallowingCycles *)

\* the smoothed series changes by at least the stability threshold into or
\* out of frame f
StillChanging(f) ==
    \E j \in {f - 1, f} :
        /\ j >= 0
        /\ j < Len(diffData)
        /\ Abs(At(diffData, j)) >= StableThreshold

\* C21: for a single bump the first call returns exactly one cycle, with the
\* bump's peak as peakFrame, startFrame before and endFrame after it, both
\* at frames where the smoothed series still changes by the stability
\* threshold or next to such a frame.
C21_SingleBump ==
    (pc = "returned" /\ attempt = "default" /\ zscoreData \in Bumps) =>
        IF result.shape = "object"
           THEN /\ Len(result.cycles) = 1
                /\ result.cycles[1].peakFrame = BumpPeak
                /\ result.cycles[1].startFrame < BumpPeak
                /\ result.cycles[1].endFrame > BumpPeak
                /\ StillChanging(result.cycles[1].startFrame)
                /\ StillChanging(result.cycles[1].endFrame)
           ELSE FALSE


Elements(seq) == {seq[k] : k \in 1..Len(seq)}

\* frame i is at least PeakWindow frames from both ends, no other frame of
\* its window has a greater smoothed value, and its own exceeds minPeakHeight
QualifiesAsPeak(i) ==
    /\ i >= PeakWindow
    /\ i <= Len(smoothedData) - 1 - PeakWindow
    /\ \A j \in (i - PeakWindow)..(i + PeakWindow) :
          j # i => At(smoothedData, j) <= At(smoothedData, i)
    /\ At(smoothedData, i) > minPeakHeight

\* C24: the peak candidates are exactly the frames at least 3 frames from
\* both ends whose smoothed value exceeds minPeakHeight and is not exceeded
\* by any other frame within 3 frames of it; a tie within the window does
\* not disqualify the frame.
C24_PeakCandidates ==
    pc = "loop" =>
        \A i \in 0..(Len(smoothedData) - 1) :
            (i \in Elements(peaks)) <=> QualifiesAsPeak(i)

\* C25: the retained peaks are strictly increasing and any two of them are
\* at least minCycleLength frames apart; of two candidates closer than
\* minCycleLength the one with the smaller smoothed value is not retained,
\* and with equal values the later one is not retained.
C25_PeakFiltering ==
    pc = "loop" =>
        /\ \A k \in 1..(Len(filteredPeaks) - 1) :
              /\ filteredPeaks[k] < filteredPeaks[k + 1]
              /\ filteredPeaks[k + 1] - filteredPeaks[k] >= minCycleLength
        /\ \A a, b \in Elements(peaks) :
              (a < b /\ b - a < minCycleLength) =>
                 IF At(smoothedData, a) < At(smoothedData, b)
                    THEN a \notin Elements(filteredPeaks)
                    ELSE b \notin Elements(filteredPeaks)

\* the first frame of from..(peakFrame - 1) whose first difference exceeds
\* the rise threshold is frame start; with no such frame any start passes
FirstRiseFrom(from, peakFrame, start) ==
    LET rises == {j \in from..(peakFrame - 1) : At(diffData, j) > RiseThreshold}
    IN rises # {} => start = MinOf(rises)

\* the start the search is to give candidate i (0-based) with the previous
\* end lastEnd: for a later cycle the rise is looked for from a frame that
\* holds the minimum of the smoothed series over (lastEnd + 1)..(peakFrame - 1),
\* when that range has a frame
SpecifiedStart(i, peakFrame, lastEnd, start) ==
    IF i = 0 THEN FirstRiseFrom(0, peakFrame, start)
    ELSE LET range == (lastEnd + 1)..(peakFrame - 1)
             lowest == {j \in range :
                          \A k \in range : At(smoothedData, j) <= At(smoothedData, k)}
         IN /\ start > lastEnd
            /\ range # {} =>
                  \E m \in lowest : start >= m /\ FirstRiseFrom(m, peakFrame, start)

\* C26: the first candidate's start is the first frame from 0 up to the peak
\* whose first difference exceeds the rise threshold; a later candidate's
\* start is searched from the previous accepted end + 1 up to the peak: the
\* first frame at or after the minimum of that range whose first difference
\* exceeds the rise threshold, never at or before the previous end.
C26_StartFrameSearch ==
    [][(pc = "loop" /\ peakIdx' = peakIdx + 1) =>
          SpecifiedStart(peakIdx, filteredPeaks[peakIdx + 1], lastEndFrame,
                         lastLog'.startFrame)]_vars

\* the frame with the lowest smoothed value the forward scan from the peak
\* meets: it covers the frames after the peak up to PostSearchWindow - 1
\* frames away or the last frame, and ends with the first frame whose first
\* difference exceeds the rise threshold
TrackedMinimum(peakFrame) ==
    LET last == Min2(Len(smoothedData), peakFrame + PostSearchWindow) - 1
        rises == {j \in (peakFrame + 1)..last :
                     j < Len(diffData) /\ At(diffData, j) > RiseThreshold}
        scanned == peakFrame..(IF rises = {} THEN last ELSE MinOf(rises))
    IN MinOf({j \in scanned :
                \A k \in scanned : At(smoothedData, j) <= At(smoothedData, k)})

\* the end the search is to give: the first frame within StableSearchWindow
\* frames from the tracked minimum whose first difference is below the
\* stability threshold in size, the minimum frame if there is none
SpecifiedEnd(peakFrame, end) ==
    LET m == TrackedMinimum(peakFrame)
        stable == {j \in m..(m + StableSearchWindow - 1) :
                      j < Len(diffData) /\ Abs(At(diffData, j)) < StableThreshold}
    IN end = IF stable = {} THEN m ELSE MinOf(stable)

\* C27: the end is the first stable frame within 30 frames from the minimum
\* the forward scan tracks over at most 100 frames after the peak until a
\* rise, or that minimum frame, and every index the search reads lies
\* inside the series it reads.
C27_EndFrameSearch ==
    [][(pc = "loop" /\ peakIdx' = peakIdx + 1) =>
          /\ SpecifiedEnd(filteredPeaks[peakIdx + 1], lastLog'.endFrame)
          /\ \A j \in StableScanReads(smoothedData, diffData, filteredPeaks[peakIdx + 1]) :
                j >= 0 /\ j < Len(diffData)]_vars

-----------------------------------------------------------------------------
(* Properties of the UES and vestibule landmarks *)

\* the UES series the searches of lines 280-424 run over
UesSeries == NonNull(CycleRows, "zscore_ues_length", 1)

HasUesLandmarks == HasLandmarks /\ IsNum(xResult.UES_peakValue)

\* index i of s has a value not greater than that of either neighbour
IsLocalMinimum(s, i) ==
    /\ i > 0
    /\ i < Len(s) - 1
    /\ At(s, i) <= At(s, i - 1)
    /\ At(s, i) <= At(s, i + 1)

\* index i of s has a value smaller than that of either neighbour
IsStrictValley(s, i) ==
    /\ i > 0
    /\ i < Len(s) - 1
    /\ At(s, i) < At(s, i - 1)
    /\ At(s, i) < At(s, i + 1)

\* C22: UESO <= UES_peakFrame <= UESC; when the UES series of the cycle has
\* a local minimum before the peak, UESO is a local minimum with no valley
\* between it and the peak, and when the series has a local minimum after
\* the peak, UESC is a local minimum with no valley between the peak and it.
C22_UesValleysBracketPeak ==
    HasUesLandmarks =>
        LET peak == Val(xResult.UES_peakFrame) - xStart
            opening == Val(xResult.UESO) - xStart
            closing == Val(xResult.UESC) - xStart
            before == {i \in 0..(peak - 1) : IsLocalMinimum(UesSeries, i)}
            after == {i \in (peak + 1)..(Len(UesSeries) - 1) : IsLocalMinimum(UesSeries, i)}
        IN /\ opening <= peak
           /\ peak <= closing
           /\ before # {} =>
                /\ opening \in before
                /\ \A i \in (opening + 1)..(peak - 1) : ~IsStrictValley(UesSeries, i)
           /\ after # {} =>
                /\ closing \in after
                /\ \A i \in (peak + 1)..(closing - 1) : ~IsStrictValley(UesSeries, i)


\* the vestibule series the searches of lines 435-622 run over
VestibuleSeries == NonNull(CycleRows, "zscore_vestibule", 1)

HasLvcLandmarks == HasLandmarks /\ IsNum(xResult.LVC_peakValue)

\* C23: LVC <= LVC_peakFrame <= LVCoff, and the vestibule series at LVC and
\* at LVCoff is not greater than it is at the peak between them.
C23_LvcBracketsPeak ==
    HasLvcLandmarks =>
        LET peak == Val(xResult.LVC_peakFrame) - xStart
            closure == Val(xResult.LVC) - xStart
            reopening == Val(xResult.LVCoff) - xStart
        IN /\ closure <= peak
           /\ peak <= reopening
           /\ At(VestibuleSeries, closure) <= At(VestibuleSeries, peak)
           /\ At(VestibuleSeries, reopening) <= At(VestibuleSeries, peak)


-----------------------------------------------------------------------------
(* The denominator of the contraction ratio *)

\* C28: whenever PCR is not absent its denominator, the adjusted 95th
\* percentile of the cycle's pharynx samples, is not zero.
C28_PcrDenominatorNonZero ==
    (Extracted /\ xResult.PCR # Null) =>
        /\ xResult.PCR_adjusted_p95 # 0
        /\ xResult.PCR = Ratio(xResult.PCR_adjusted_p5, xResult.PCR_adjusted_p95)


-----------------------------------------------------------------------------
(* The job of App, lines 1090-1170: onSubmit posts the video and the       *)
(* effect on jobId polls the job's status once at once and then from an    *)
(* interval.  A request that has been sent is in inFlight until its        *)
(* response (or failure) is handled; responses are handled in any order.   *)
(* A status response carries the backend's status at the time of the       *)
(* request.  Job j is the job the j-th successful post creates.            *)

MaxRequests == 5

Request(kind, job, status, n) == [kind |-> kind, job |-> job, status |-> status, n |-> n]

\* lines 1144-1147, 1149-1152, 1165-1168: clearInterval(pollTimer.current)
ClearedIntervals == IF pollTimer # 0 THEN intervals \ {pollTimer} ELSE intervals

\* const s = await axios.get(`${BACKEND}/jobs/${jobId}/status`), line 1137
StatusRequest(job) == Request("status", job, backend[job], requests)

\* lines 1103-1119: onSubmit up to the post; the render that follows runs
\* the cleanup of the effect of the job replaced, lines 1164-1169
Submit ==
    /\ ~submitting
    /\ requests < MaxRequests
    /\ \E j \in 1..MaxJobs :
          /\ backend[j] = "none"
          /\ \A k \in 1..(j - 1) : backend[k] # "none"
          /\ \A m \in inFlight : ~(m.kind = "post" /\ m.job = j)
          /\ inFlight' = inFlight \cup {Request("post", j, "none", requests)}
    /\ submitting' = TRUE
    /\ summary' = 0
    /\ jobId' = 0
    /\ jobStatus' = "null"
    /\ advancedData' = [shape |-> "null"]
    /\ intervals' = IF jobId # 0 THEN ClearedIntervals ELSE intervals
    /\ pollTimer' = IF jobId # 0 THEN 0 ELSE pollTimer
    /\ requests' = requests + 1
    /\ UNCHANGED backend
    /\ UNCHANGED <<zscoreData, pc, attempt, minPeakHeight, minCycleLength,
                   smoothedData, diffData, peaks, filteredPeaks, peakIdx,
                   swallowingCycles, lastEndFrame, extractCalls, lastLog, result,
                   swallowingAnalysis, renderOutcome>>
    /\ UNCHANGED <<extractVars, processVars, filterVars>>

\* lines 1120-1123 and 1128, then the effect of lines 1132-1162 for the new
\* jobId: the first poll and the interval
PostReturns ==
    \E m \in inFlight :
        /\ m.kind = "post"
        /\ backend' = [backend EXCEPT ![m.job] = "pending"]
        /\ jobId' = m.job
        /\ jobStatus' = "pending"
        /\ submitting' = FALSE
        /\ inFlight' = (inFlight \ {m})
                          \cup {Request("status", m.job, "pending", requests)}
        /\ pollTimer' = m.job
        /\ intervals' = intervals \cup {m.job}
        /\ requests' = requests + 1
        /\ UNCHANGED summary
        /\ UNCHANGED <<detectVars, extractVars, processVars, filterVars>>

\* lines 1124-1128: the post fails
PostFails ==
    \E m \in inFlight :
        /\ m.kind = "post"
        /\ submitting' = FALSE
        /\ inFlight' = inFlight \ {m}
        /\ UNCHANGED <<jobId, jobStatus, summary, pollTimer, intervals, backend, requests>>
        /\ UNCHANGED <<detectVars, extractVars, processVars, filterVars>>

\* the interval of line 1162 calls poll, which sends the request of line 1137
TimerFires ==
    \E j \in intervals :
        /\ requests < MaxRequests
        /\ inFlight' = inFlight \cup {StatusRequest(j)}
        /\ requests' = requests + 1
        /\ UNCHANGED <<jobId, jobStatus, summary, submitting, pollTimer, intervals, backend>>
        /\ UNCHANGED <<detectVars, extractVars, processVars, filterVars>>

\* the backend works on a job: pending, running, then done or error
BackendStep ==
    \E j \in 1..MaxJobs :
        /\ backend[j] \in {"pending", "running"}
        /\ \E next \in (IF backend[j] = "pending" THEN {"running"} ELSE {"done", "error"}) :
              backend' = [backend EXCEPT ![j] = next]
        /\ UNCHANGED <<jobId, jobStatus, summary, submitting, pollTimer, intervals,
                       inFlight, requests>>
        /\ UNCHANGED <<detectVars, extractVars, processVars, filterVars>>

\* lines 1138-1153: poll continues with the status response
StatusArrives ==
    \E m \in inFlight :
        /\ m.kind = "status"
        /\ jobStatus' = m.status
        /\ IF m.status = "done"
              THEN /\ inFlight' = (inFlight \ {m}) \cup {Request("result", m.job, "none", m.n)}
                   /\ UNCHANGED <<pollTimer, intervals>>
              ELSE /\ inFlight' = inFlight \ {m}
                   /\ IF m.status = "error"
                         THEN intervals' = ClearedIntervals /\ pollTimer' = 0
                         ELSE UNCHANGED <<pollTimer, intervals>>
        /\ UNCHANGED <<jobId, summary, submitting, backend, requests>>
        /\ UNCHANGED <<detectVars, extractVars, processVars, filterVars>>

\* lines 1142-1147: poll continues with the result
ResultArrives ==
    \E m \in inFlight :
        /\ m.kind = "result"
        /\ summary' = m.job
        /\ intervals' = ClearedIntervals
        /\ pollTimer' = 0
        /\ inFlight' = inFlight \ {m}
        /\ UNCHANGED <<jobId, jobStatus, submitting, backend, requests>>
        /\ UNCHANGED <<detectVars, extractVars, processVars, filterVars>>

\* lines 1155-1157: a request of poll fails
RequestFails ==
    \E m \in inFlight :
        /\ m.kind \in {"status", "result"}
        /\ inFlight' = inFlight \ {m}
        /\ UNCHANGED <<jobId, jobStatus, summary, submitting, pollTimer, intervals,
                       backend, requests>>
        /\ UNCHANGED <<detectVars, extractVars, processVars, filterVars>>

InitPoll ==
    /\ PollIdle
    /\ DetectIdle
    /\ ExtractIdle
    /\ ProcessIdle
    /\ FilterIdle

NextPoll ==
    \/ Submit
    \/ PostReturns
    \/ PostFails
    \/ TimerFires
    \/ BackendStep
    \/ StatusArrives
    \/ ResultArrives
    \/ RequestFails

SpecPoll == InitPoll /\ [][NextPoll]_vars

-----------------------------------------------------------------------------
(* Properties of the job state *)

\* the responses handled by a step
Handled == inFlight \ inFlight'

\* the requests sent by a step
Sent == inFlight' \ inFlight

\* C29: once jobStatus is 'done' or 'error', the status response of a poll
\* of the current job does not set it to 'pending' or 'running', and a
\* status request is sent only for a job whose interval has not been
\* cleared or whose effect has just started.
C29_StatusNeverRegresses ==
    [][/\ \A m \in Handled :
             (/\ m.kind = "status"
              /\ m.job = jobId
              /\ jobId' = jobId
              /\ jobStatus \in {"done", "error"})
                => jobStatus' \notin {"pending", "running"}
       /\ \A m \in Sent :
             m.kind = "status" =>
                \/ m.job \in intervals
                \/ jobId # m.job /\ jobId' = m.job]_vars

\* C30: a summary shown is the result of the current job, and handling a
\* response of a job that is not the current one changes neither summary
\* nor jobStatus.
C30_ResultOfCurrentJob ==
    [][/\ summary' # 0 => summary' = jobId'
       /\ \A m \in Handled :
             (m.kind \in {"status", "result"} /\ m.job # jobId) =>
                 /\ summary' = summary
                 /\ jobStatus' = jobStatus]_vars

=============================================================================
